---- MODULE Spec2Model ----
(***************************************************************************)
(* A model of the Lox tree-walking interpreter (ahabhgk/lox-rs).           *)
(*                                                                         *)
(* Environments are reference-counted cells (Rc<RefCell<Environment>>):    *)
(* the model keeps them in `heap`, a sequence of environment records, and  *)
(* a reference is an index into it (0 is Option::None).  The interpreter   *)
(* is translated method by method as recursive operators that take the     *)
(* interpreter state `st` and return a result record carrying the state    *)
(* after the call; a Rust Err(..) is a result whose `sig` is not "Ok".     *)
(* Numbers are the integer-valued f64 the programs below compute with.     *)
(***************************************************************************)
EXTENDS Integers, Sequences, FiniteSets, TLC

VARIABLES
    script,       \* the script being run: [name, a, b]
    statements,   \* the parsed program handed to Interpreter::interpret
    pc,           \* index of the next statement of the interpret loop
    status,       \* "running", "done" (Ok) or "error" (Err returned by run)
    interp,       \* the Interpreter: current environment, heap, output, history
    lexer,        \* the Lexer at work on a source, and how its scan ended
    parser,       \* the Parser at work on the tokens, and how parse ended
    resolver,     \* the Resolver at work on a program, and the side table
    chain,        \* a chain of environments, and the last get_at / assign_at
    prompt        \* the prompt loop: standard input, prompts written, position

vars == <<script, statements, pc, status, interp, lexer, parser, resolver,
          chain, prompt>>

(***************************************************************************)
(* Bounds of the model.                                                    *)
(***************************************************************************)
\* Largest argument of fib in the recursion scenario.
MaxFib == 4
\* Calls plus loop iterations one statement may take before it is cut off.
MaxSteps == 400

(***************************************************************************)
(* object.rs: runtime values.                                              *)
(***************************************************************************)
Nil == [t |-> "Nil"]
Boolean(b) == [t |-> "Boolean", v |-> b]
Number(n) == [t |-> "Number", v |-> n]
String(s) == [t |-> "String", v |-> s]
Callable(f) == [t |-> "Callable", f |-> f]

Native(arity_, body) == [kind |-> "Native", arity |-> arity_, body |-> body]
User(name, params, body, closure) ==
    [kind |-> "User", name |-> name, params |-> params, body |-> body,
     closure |-> closure]

\* Object::equals
equals(self, other) ==
    CASE self.t = "Nil" /\ other.t = "Nil" -> TRUE
      [] other.t = "Nil" -> FALSE
      [] self.t = "Nil" -> FALSE
      [] self.t = "Boolean" /\ other.t = "Boolean" -> self.v = other.v
      [] self.t = "Number" /\ other.t = "Number" -> self.v = other.v
      [] self.t = "String" /\ other.t = "String" -> self.v = other.v
      [] OTHER -> FALSE

\* f64::to_string on an integer-valued number: decimal digits, '-' if negative.
Digit == <<"0", "1", "2", "3", "4", "5", "6", "7", "8", "9">>
RECURSIVE nat_to_string(_)
nat_to_string(n) ==
    IF n < 10 THEN Digit[n + 1]
    ELSE nat_to_string(n \div 10) \o Digit[(n % 10) + 1]
number_to_string(n) ==
    IF n < 0 THEN "-" \o nat_to_string(0 - n) ELSE nat_to_string(n)

\* impl Display for Function
function_to_string(f) ==
    IF f.kind = "Native" THEN "<native func>" ELSE "<fn " \o f.name \o ">"

\* impl Display for Object
object_to_string(self) ==
    CASE self.t = "Nil" -> "nil"
      [] self.t = "Number" -> number_to_string(self.v)
      [] self.t = "Boolean" -> (IF self.v THEN "true" ELSE "false")
      [] self.t = "String" -> self.v
      [] self.t = "Callable" -> function_to_string(self.f)

\* Function::arity
arity(self) == IF self.kind = "Native" THEN self.arity ELSE Len(self.params)

(***************************************************************************)
(* ast.rs: expressions and statements.  Option::None is NoneNode.          *)
(***************************************************************************)
NoneNode == [k |-> "None"]

ExprLiteral(value) == [k |-> "Literal", value |-> value]
ExprGrouping(expression) == [k |-> "Grouping", expression |-> expression]
ExprUnary(operator, right) ==
    [k |-> "Unary", operator |-> operator, right |-> right]
ExprBinary(left, operator, right) ==
    [k |-> "Binary", left |-> left, operator |-> operator, right |-> right]
ExprLogical(left, operator, right) ==
    [k |-> "Logical", left |-> left, operator |-> operator, right |-> right]
ExprVariable(name) == [k |-> "Variable", name |-> name]
ExprAssign(name, value) == [k |-> "Assign", name |-> name, value |-> value]
ExprCall(callee, paren, arguments) ==
    [k |-> "Call", callee |-> callee, paren |-> paren, arguments |-> arguments]

StmtBlock(stmts) == [k |-> "Block", statements |-> stmts]
StmtExpression(expression) == [k |-> "Expression", expression |-> expression]
StmtPrint(expression) == [k |-> "Print", expression |-> expression]
StmtVar(name, initializer) ==
    [k |-> "Var", name |-> name, initializer |-> initializer]
StmtIf(condition, then_branch, else_branch) ==
    [k |-> "If", condition |-> condition, then_branch |-> then_branch,
     else_branch |-> else_branch]
StmtWhile(condition, body) ==
    [k |-> "While", condition |-> condition, body |-> body]
StmtFunction(name, params, body) ==
    [k |-> "Function", name |-> name, params |-> params, body |-> body]
StmtReturn(keyword, value) ==
    [k |-> "Return", keyword |-> keyword, value |-> value]

(***************************************************************************)
(* environment.rs                                                          *)
(***************************************************************************)
\* Environment::new
Environment_new == [enclosing |-> 0, values |-> <<>>]

\* Environment::from
Environment_from(enclosing) == [enclosing |-> enclosing, values |-> <<>>]

\* Environment::define, on the cell `env` of the heap
define(heap, env, name, value) ==
    [heap EXCEPT ![env].values = (name :> value) @@ @]

\* Environment::get: the innermost binding on the enclosing chain
RECURSIVE get(_, _, _)
get(heap, env, name) ==
    IF name \in DOMAIN heap[env].values
    THEN [ok |-> TRUE, value |-> heap[env].values[name]]
    ELSE IF heap[env].enclosing # 0
         THEN get(heap, heap[env].enclosing, name)
         ELSE [ok |-> FALSE, value |-> Nil]

\* An assign that defines the name in the outermost environment of the
\* chain when no environment binds it.
RECURSIVE assign_or_define(_, _, _, _)
assign_or_define(heap, env, name, value) ==
    IF name \in DOMAIN heap[env].values
    THEN [ok |-> TRUE, heap |-> define(heap, env, name, value)]
    ELSE IF heap[env].enclosing # 0
         THEN assign_or_define(heap, heap[env].enclosing, name, value)
         ELSE [ok |-> TRUE, heap |-> define(heap, env, name, value)]

\* Environment::assign: overwrite the innermost binding on the chain
RECURSIVE assign(_, _, _, _)
assign(heap, env, name, value) ==
    IF name \in DOMAIN heap[env].values
    THEN [ok |-> TRUE, heap |-> define(heap, env, name, value)]
    ELSE IF heap[env].enclosing # 0
         THEN assign(heap, heap[env].enclosing, name, value)
         ELSE [ok |-> FALSE, heap |-> heap]

(***************************************************************************)
(* interpreter.rs: results.                                                *)
(***************************************************************************)
Ok(st, value) ==
    [st |-> st, sig |-> "Ok", value |-> value, token |-> "", message |-> ""]
Err(st, kind, token, message) ==
    [st |-> st, sig |-> kind, value |-> Nil, token |-> token,
     message |-> message]
\* RuntimeError::Return { value }
ReturnSignal(st, value) ==
    [st |-> st, sig |-> "Return", value |-> value, token |-> "",
     message |-> ""]
\* The cut-off of a statement that exceeds MaxSteps (not a Lox outcome).
Diverge(st) == Err(st, "Diverge", "", "")

\* Interpreter::new: the globals cell receives clock, and the interpreter
\* starts in a second, fresh Environment::new().
Interpreter_new(now) ==
    LET globals == 1
        heap0 == <<Environment_new>>
        clock == Callable(Native(0, "clock"))
        heap1 == define(heap0, globals, "clock", clock)
    IN [environment |-> 2,
        heap |-> Append(heap1, Environment_new),
        out |-> <<>>,
        log |-> <<>>,
        now |-> now,
        steps |-> 0]

\* Interpreter::number_operand_error
number_operand_error(st, operator) ==
    Err(st, "TypeError", operator, "Operand must be a number.")

\* Interpreter::is_truthy
is_truthy(object) ==
    CASE object.t = "Nil" -> FALSE
      [] object.t = "Boolean" -> object.v
      [] OTHER -> TRUE

RECURSIVE evaluate(_, _), execute(_, _), execute_block(_, _, _), call(_, _, _)

\* LiteralValue -> Object
visit_literal_expr(value, st) == Ok(st, value)

\* The operator dispatch of visit_binary_expr, both operands evaluated.
binary_operator(operator, left, right, st) ==
    LET numbers == left.t = "Number" /\ right.t = "Number" IN
    CASE operator = "Greater" ->
            IF numbers THEN Ok(st, Boolean(left.v > right.v))
            ELSE number_operand_error(st, operator)
      [] operator = "GreaterEqual" ->
            IF numbers THEN Ok(st, Boolean(left.v >= right.v))
            ELSE number_operand_error(st, operator)
      [] operator = "Less" ->
            IF numbers THEN Ok(st, Boolean(left.v < right.v))
            ELSE number_operand_error(st, operator)
      [] operator = "LessEqual" ->
            IF numbers THEN Ok(st, Boolean(left.v <= right.v))
            ELSE number_operand_error(st, operator)
      [] operator = "Minus" ->
            IF numbers THEN Ok(st, Number(left.v - right.v))
            ELSE number_operand_error(st, operator)
      [] operator = "Slash" ->
            \* exact quotients only: the programs divide by divisors
            IF numbers THEN Ok(st, Number(left.v \div right.v))
            ELSE number_operand_error(st, operator)
      [] operator = "Star" ->
            IF numbers THEN Ok(st, Number(left.v * right.v))
            ELSE number_operand_error(st, operator)
      [] operator = "Plus" ->
            IF numbers THEN Ok(st, Number(left.v + right.v))
            ELSE IF left.t = "String" /\ right.t = "String"
            THEN Ok(st, String(left.v \o right.v))
            ELSE Err(st, "TypeError", operator,
                     "Operands must be two numbers or two strings.")
      [] operator = "BangEqual" -> Ok(st, Boolean(~equals(left, right)))
      [] operator = "EqualEqual" -> Ok(st, Boolean(equals(left, right)))

\* Interpreter::visit_binary_expr
visit_binary_expr(left, operator, right, st) ==
    LET l == evaluate(left, st) IN
    IF l.sig # "Ok" THEN l
    ELSE LET r == evaluate(right, l.st) IN
         IF r.sig # "Ok" THEN r
         ELSE binary_operator(operator, l.value, r.value, r.st)

\* Interpreter::visit_grouping_expr
visit_grouping_expr(expression, st) == evaluate(expression, st)

\* Interpreter::visit_unary_expr
visit_unary_expr(operator, right, st) ==
    LET r == evaluate(right, st) IN
    IF r.sig # "Ok" THEN r
    ELSE IF operator = "Minus"
         THEN IF r.value.t = "Number" THEN Ok(r.st, Number(0 - r.value.v))
              ELSE number_operand_error(r.st, operator)
         ELSE Ok(r.st, Boolean(~is_truthy(r.value)))

\* Interpreter::visit_variable_expr
visit_variable_expr(name, st) ==
    LET g == get(st.heap, st.environment, name) IN
    IF g.ok THEN Ok(st, g.value)
    ELSE Err(st, "UndefinedError", name, "Undefined variable.")

\* Interpreter::visit_assign_expr
visit_assign_expr(name, value, st) ==
    LET v == evaluate(value, st) IN
    IF v.sig # "Ok" THEN v
    ELSE LET a == assign(v.st.heap, v.st.environment, name, v.value) IN
         IF a.ok THEN Ok([v.st EXCEPT !.heap = a.heap], v.value)
         ELSE Err(v.st, "UndefinedError", name, "Undefined variable.")

\* A visit_logical_expr that evaluates both operands before it chooses.
visit_logical_expr_eager(left, operator, right, st) ==
    LET l == evaluate(left, st) IN
    IF l.sig # "Ok" THEN l
    ELSE LET r == evaluate(right, l.st) IN
         IF r.sig # "Ok" THEN r
         ELSE IF operator = "Or" /\ is_truthy(l.value) THEN Ok(r.st, l.value)
         ELSE IF operator = "And" /\ ~is_truthy(l.value)
         THEN Ok(r.st, l.value)
         ELSE r

\* Interpreter::visit_logical_expr
visit_logical_expr(left, operator, right, st) ==
    LET l == evaluate(left, st) IN
    IF l.sig # "Ok" THEN l
    ELSE IF operator = "Or" /\ is_truthy(l.value) THEN l
    ELSE IF operator = "And" /\ ~is_truthy(l.value) THEN l
    ELSE evaluate(right, l.st)

\* An evaluate_arguments that begins with the last argument.
RECURSIVE evaluate_arguments_last_first(_, _, _, _)
evaluate_arguments_last_first(arguments, i, acc, st) ==
    IF i > Len(arguments) THEN Ok(st, acc)
    ELSE LET a == evaluate(arguments[Len(arguments) + 1 - i], st) IN
         IF a.sig # "Ok" THEN a
         ELSE evaluate_arguments_last_first(arguments, i + 1,
                                            <<a.value>> \o acc, a.st)

\* arguments.into_iter().map(|expr| self.evaluate(expr)).collect():
\* in source order, stopping at the first Err.
RECURSIVE evaluate_arguments(_, _, _, _)
evaluate_arguments(arguments, i, acc, st) ==
    IF i > Len(arguments) THEN Ok(st, acc)
    ELSE LET a == evaluate(arguments[i], st) IN
         IF a.sig # "Ok" THEN a
         ELSE evaluate_arguments(arguments, i + 1, Append(acc, a.value), a.st)

\* A visit_call_expr that calls without comparing the number of arguments
\* with the arity.
visit_call_expr_unchecked(callee, paren, arguments, st) ==
    LET callee_value == evaluate(callee, st) IN
    IF callee_value.sig # "Ok" THEN callee_value
    ELSE LET args == evaluate_arguments(arguments, 1, <<>>, callee_value.st) IN
         IF args.sig # "Ok" THEN args
         ELSE IF callee_value.value.t = "Callable"
         THEN call(callee_value.value.f, args.value, args.st)
         ELSE Err(args.st, "TypeError", paren,
                  "Can only call functions and classes.")

\* Interpreter::visit_call_expr
visit_call_expr(callee, paren, arguments, st) ==
    LET callee_value == evaluate(callee, st) IN
    IF callee_value.sig # "Ok" THEN callee_value
    ELSE LET args == evaluate_arguments(arguments, 1, <<>>, callee_value.st) IN
         IF args.sig # "Ok" THEN args
         ELSE IF callee_value.value.t = "Callable"
         THEN IF Len(args.value) # arity(callee_value.value.f)
              THEN Err(args.st, "TypeError", paren,
                       <<"Expected ", arity(callee_value.value.f),
                         " arguments but got ", Len(args.value), ".">>)
              ELSE call(callee_value.value.f, args.value, args.st)
         ELSE Err(args.st, "TypeError", paren,
                  "Can only call functions and classes.")

\* Expr::accept
evaluate(expr, st) ==
    CASE expr.k = "Literal" -> visit_literal_expr(expr.value, st)
      [] expr.k = "Grouping" -> visit_grouping_expr(expr.expression, st)
      [] expr.k = "Unary" -> visit_unary_expr(expr.operator, expr.right, st)
      [] expr.k = "Binary" ->
            visit_binary_expr(expr.left, expr.operator, expr.right, st)
      [] expr.k = "Logical" ->
            visit_logical_expr(expr.left, expr.operator, expr.right, st)
      [] expr.k = "Variable" -> visit_variable_expr(expr.name, st)
      [] expr.k = "Assign" -> visit_assign_expr(expr.name, expr.value, st)
      [] expr.k = "Call" ->
            visit_call_expr(expr.callee, expr.paren, expr.arguments, st)

\* Interpreter::visit_block_stmt
visit_block_stmt(stmts, st) ==
    LET env == Len(st.heap) + 1 IN
    execute_block(stmts, env,
        [st EXCEPT !.heap = Append(@, Environment_from(st.environment))])

\* Interpreter::visit_expression_stmt
visit_expression_stmt(expression, st) ==
    LET v == evaluate(expression, st) IN
    IF v.sig # "Ok" THEN v ELSE Ok(v.st, Nil)

\* Interpreter::visit_print_stmt
visit_print_stmt(expression, st) ==
    LET v == evaluate(expression, st) IN
    IF v.sig # "Ok" THEN v
    ELSE Ok([v.st EXCEPT !.out = Append(@, object_to_string(v.value))], Nil)

\* Interpreter::visit_var_stmt
visit_var_stmt(name, initializer, st) ==
    LET v == IF initializer = NoneNode THEN Ok(st, Nil)
             ELSE evaluate(initializer, st)
    IN IF v.sig # "Ok" THEN v
       ELSE Ok([v.st EXCEPT
                  !.heap = define(@, v.st.environment, name, v.value)], Nil)

\* Interpreter::visit_if_stmt
visit_if_stmt(condition, then_branch, else_branch, st) ==
    LET condition_value == evaluate(condition, st) IN
    IF condition_value.sig # "Ok" THEN condition_value
    ELSE IF is_truthy(condition_value.value)
         THEN execute(then_branch, condition_value.st)
         ELSE IF else_branch # NoneNode
              THEN execute(else_branch, condition_value.st)
              ELSE Ok(condition_value.st, Nil)

\* Interpreter::visit_while_stmt
RECURSIVE visit_while_stmt(_, _, _)
visit_while_stmt(condition, body, st) ==
    LET value == evaluate(condition, st) IN
    IF value.sig # "Ok" THEN value
    ELSE IF ~is_truthy(value.value) THEN Ok(value.st, Nil)
    ELSE IF value.st.steps >= MaxSteps THEN Diverge(value.st)
    ELSE LET b == execute(body, [value.st EXCEPT !.steps = @ + 1]) IN
         IF b.sig # "Ok" THEN b
         ELSE visit_while_stmt(condition, body, b.st)

\* Interpreter::visit_function_stmt
visit_function_stmt(name, params, body, st) ==
    LET function == User(name, params, body, st.environment) IN
    Ok([st EXCEPT
          !.heap = define(@, st.environment, name, Callable(function)),
          !.log = Append(@, [op |-> "function", name |-> name,
                             closure |-> st.environment])],
       Nil)

\* A visit_return_stmt that evaluates the value and returns nil instead.
visit_return_stmt_nil(keyword, value, st) ==
    LET return_value == IF value = NoneNode THEN Ok(st, Nil)
                        ELSE evaluate(value, st)
    IN IF return_value.sig # "Ok" THEN return_value
       ELSE ReturnSignal(return_value.st, Nil)

\* Interpreter::visit_return_stmt
visit_return_stmt(keyword, value, st) ==
    LET return_value == IF value = NoneNode THEN Ok(st, Nil)
                        ELSE evaluate(value, st)
    IN IF return_value.sig # "Ok" THEN return_value
       ELSE ReturnSignal(return_value.st, return_value.value)

\* Stmt::accept
execute(stmt, st) ==
    CASE stmt.k = "Block" -> visit_block_stmt(stmt.statements, st)
      [] stmt.k = "Expression" -> visit_expression_stmt(stmt.expression, st)
      [] stmt.k = "Print" -> visit_print_stmt(stmt.expression, st)
      [] stmt.k = "Var" -> visit_var_stmt(stmt.name, stmt.initializer, st)
      [] stmt.k = "If" ->
            visit_if_stmt(stmt.condition, stmt.then_branch, stmt.else_branch,
                          st)
      [] stmt.k = "While" -> visit_while_stmt(stmt.condition, stmt.body, st)
      [] stmt.k = "Function" ->
            visit_function_stmt(stmt.name, stmt.params, stmt.body, st)
      [] stmt.k = "Return" -> visit_return_stmt(stmt.keyword, stmt.value, st)

\* `for stmt in statements { self.execute(stmt)?; }` of execute_block; `at`
\* collects the environment that is current when each statement starts.
RECURSIVE execute_statements(_, _, _, _)
execute_statements(stmts, i, at, st) ==
    IF i > Len(stmts) THEN [r |-> Ok(st, Nil), at |-> at]
    ELSE LET r == execute(stmts[i], st) IN
         IF r.sig # "Ok" THEN [r |-> r, at |-> Append(at, st.environment)]
         ELSE execute_statements(stmts, i + 1, Append(at, st.environment),
                                 r.st)

\* Interpreter::execute_block.  The history `log` records, for every block
\* executed, the environment it was given, the one that was current before
\* it, the one current at each of its statements, and how and where it ended.
execute_block(stmts, env, st) ==
    LET previous == st.environment
        run == execute_statements(stmts, 1, <<>>,
                                  [st EXCEPT !.environment = env])
        r == run.r
        entry(after) == [op |-> "execute_block", env |-> env,
                         previous |-> previous, at |-> run.at,
                         sig |-> r.sig, after |-> after]
    IN IF r.sig # "Ok"
       THEN [r EXCEPT !.st.log = Append(@, entry(r.st.environment))]
       ELSE Ok([r.st EXCEPT !.environment = previous,
                            !.log = Append(@, entry(previous))], Nil)

\* The host function of a Native: clock reads the wall clock.
native_body(body, arguments, st) == Number(st.now)

\* params.iter().zip(arguments.iter()): define each pair in the new cell
RECURSIVE define_params(_, _, _, _, _)
define_params(heap, env, params, arguments, i) ==
    IF i > Len(params) \/ i > Len(arguments) THEN heap
    ELSE define_params(define(heap, env, params[i], arguments[i]), env,
                       params, arguments, i + 1)

\* Function::call
call(self, arguments, st) ==
    IF self.kind = "Native"
    THEN Ok(st, native_body(self.body, arguments, st))
    ELSE IF st.steps >= MaxSteps THEN Diverge(st)
    ELSE LET environment == Len(st.heap) + 1
             heap1 == Append(st.heap, Environment_from(self.closure))
             heap2 == define_params(heap1, environment, self.params,
                                    arguments, 1)
             st1 == [st EXCEPT
                       !.heap = heap2,
                       !.steps = @ + 1,
                       !.log = Append(@, [op |-> "call", name |-> self.name,
                                          env |-> environment,
                                          closure |-> self.closure])]
             r == execute_block(self.body, environment, st1)
         IN CASE r.sig = "Return" -> Ok(r.st, r.value)
              [] r.sig = "Ok" -> Ok(r.st, Nil)
              [] OTHER -> r

(***************************************************************************)
(* The scripts the interpreter is run on.  A script is named by a record   *)
(* [name, a, b]; Program gives its statement list, as the parser builds    *)
(* it.  The scenarios are those of examples/*.lox and their variations.    *)
(***************************************************************************)
V(name) == ExprVariable(name)
Num(n) == ExprLiteral(Number(n))
Str(s) == ExprLiteral(String(s))
CallOf(name, arguments) == ExprCall(V(name), ")", arguments)

\* examples/enclosing.lox
EnclosingProgram ==
    << StmtVar("a", Str("global")),
       StmtBlock(<< StmtVar("a", Str("outer")),
                    StmtBlock(<< StmtVar("a", Str("inner")),
                                 StmtPrint(V("a")) >>),
                    StmtPrint(V("a")) >>),
       StmtPrint(V("a")) >>

\* examples/closure.lox
ClosureProgram ==
    << StmtFunction("makeCounter", <<>>,
          << StmtVar("i", Num(0)),
             StmtFunction("count", <<>>,
                << StmtExpression(
                      ExprAssign("i", ExprBinary(V("i"), "Plus", Num(1)))),
                   StmtPrint(V("i")) >>),
             StmtReturn("return", V("count")) >>),
       StmtVar("c", CallOf("makeCounter", <<>>)),
       StmtExpression(CallOf("c", <<>>)),
       StmtExpression(CallOf("c", <<>>)),
       StmtExpression(CallOf("c", <<>>)) >>

\* Scenario S4: a function declared in a block before a local of the block.
ScopeProgram ==
    << StmtVar("a", Str("global")),
       StmtBlock(<< StmtFunction("showA", <<>>, << StmtPrint(V("a")) >>),
                    StmtExpression(CallOf("showA", <<>>)),
                    StmtVar("a", Str("block")),
                    StmtExpression(CallOf("showA", <<>>)) >>) >>

\* examples/fib.lox, printing fib(n)
FibProgram(n) ==
    << StmtFunction("fib", <<"n">>,
          << StmtIf(ExprBinary(V("n"), "Less", Num(2)),
                    StmtReturn("return", V("n")), NoneNode),
             StmtReturn("return",
                ExprBinary(
                   CallOf("fib", <<ExprBinary(V("n"), "Minus", Num(2))>>),
                   "Plus",
                   CallOf("fib", <<ExprBinary(V("n"), "Minus", Num(1))>>)))
          >>),
       StmtPrint(CallOf("fib", <<Num(n)>>)) >>

\* Exit paths of a block and of a function body: a = 1 a block that
\* completes, 2 a block that raises a runtime error, 3 a function body left
\* by return, 4 a function body left by return from a nested block.
BlockProgram(a) ==
    CASE a = 1 -> << StmtVar("a", Num(1)),
                     StmtBlock(<< StmtVar("b", Num(2)), StmtPrint(V("b")) >>),
                     StmtPrint(V("a")) >>
      [] a = 2 -> << StmtVar("a", Num(1)),
                     StmtBlock(<< StmtVar("b", Num(2)), StmtPrint(V("c")) >>),
                     StmtPrint(V("a")) >>
      [] a = 3 -> << StmtFunction("f", <<>>, << StmtReturn("return", Num(1)) >>),
                     StmtExpression(CallOf("f", <<>>)),
                     StmtPrint(Num(2)) >>
      [] a = 4 -> << StmtFunction("f", <<>>,
                        << StmtBlock(<< StmtReturn("return", Num(1)) >>) >>),
                     StmtExpression(CallOf("f", <<>>)),
                     StmtPrint(Num(2)) >>

\* A function whose body goes on after a call of its inner function:
\*   fun outer(x) { var i = 0; fun inc() { i = i + 1; return i; }
\*                  inc(); print i; print x; }
\*   outer(a);
OuterProgram(a) ==
    << StmtFunction("outer", <<"x">>,
          << StmtVar("i", Num(0)),
             StmtFunction("inc", <<>>,
                << StmtExpression(
                      ExprAssign("i", ExprBinary(V("i"), "Plus", Num(1)))),
                   StmtReturn("return", V("i")) >>),
             StmtExpression(CallOf("inc", <<>>)),
             StmtPrint(V("i")),
             StmtPrint(V("x")) >>),
       StmtExpression(CallOf("outer", <<Num(a)>>)) >>

\* Variations of closure.lox.  a = 0 is the example itself; a = 1 reads the
\* captured variable in the outer function between calls of the closure;
\* a = 2 does so after calling an unrelated global function as well:
\*   fun g() { return 0; }
\*   fun outer() { var i = 0; fun inc() { i = i + 1; }
\*                 inc(); [g();] print i; inc(); print i; }
\*   outer();
CounterProgram(a) ==
    IF a = 0 THEN ClosureProgram
    ELSE << StmtFunction("g", <<>>, << StmtReturn("return", Num(0)) >>),
            StmtFunction("outer", <<>>,
               << StmtVar("i", Num(0)),
                  StmtFunction("inc", <<>>,
                     << StmtExpression(
                           ExprAssign("i",
                              ExprBinary(V("i"), "Plus", Num(1)))) >>),
                  StmtExpression(CallOf("inc", <<>>)) >>
               \o (IF a = 2 THEN << StmtExpression(CallOf("g", <<>>)) >>
                   ELSE <<>>)
               \o << StmtPrint(V("i")),
                     StmtExpression(CallOf("inc", <<>>)),
                     StmtPrint(V("i")) >>),
            StmtExpression(CallOf("outer", <<>>)) >>

\* Variations of enclosing.lox.  a = 0 is the example itself; a = 1 leaves
\* the inner block by a return:
\*   var a = "global";
\*   fun f() { var a = "outer"; { var a = "inner"; return a; } }
\*   print f(); print a;
ShadowProgram(a) ==
    IF a = 0 THEN EnclosingProgram
    ELSE << StmtVar("a", Str("global")),
            StmtFunction("f", <<>>,
               << StmtVar("a", Str("outer")),
                  StmtBlock(<< StmtVar("a", Str("inner")),
                               StmtReturn("return", V("a")) >>) >>),
            StmtPrint(CallOf("f", <<>>)),
            StmtPrint(V("a")) >>

\* The literals used as operands and return values, and what `print` shows
\* for each.
Value(i) ==
    CASE i = 1 -> Nil
      [] i = 2 -> Boolean(FALSE)
      [] i = 3 -> Boolean(TRUE)
      [] i = 4 -> Number(0)
      [] i = 5 -> String("")
      [] i = 6 -> String("s")
      [] i = 7 -> Number(7)
ValueText == <<"nil", "false", "true", "0", "", "s", "7">>
\* nil and false are the falsy values of Lox
Falsy(i) == i \in {1, 2}

\* `return e;` for value b, or the bare `return;` for b = 0
ReturnOf(b) == StmtReturn("return", IF b = 0 THEN NoneNode
                                    ELSE ExprLiteral(Value(b)))
ReturnText(b) == IF b = 0 THEN "nil" ELSE ValueText[b]

\* fun f() { <body a> }  print f();   with `return e` at various depths
ReturnShapes == 1..10
ReturnBody(a, b) ==
    LET lit(x) == ExprLiteral(Boolean(x))
        say(x) == StmtPrint(Str(x))
    IN CASE a = 1 -> << ReturnOf(b), say("after") >>
         [] a = 2 -> << StmtBlock(<< ReturnOf(b), say("later") >>),
                        say("after") >>
         [] a = 3 -> << StmtIf(lit(TRUE), ReturnOf(b), NoneNode),
                        say("after") >>
         [] a = 4 -> << StmtIf(lit(FALSE), say("then"),
                               StmtBlock(<< ReturnOf(b) >>)),
                        say("after") >>
         [] a = 5 -> << StmtVar("i", Num(0)),
                        StmtWhile(lit(TRUE),
                           StmtBlock(
                              << StmtExpression(ExprAssign("i",
                                    ExprBinary(V("i"), "Plus", Num(1)))),
                                 StmtPrint(V("i")),
                                 StmtIf(ExprBinary(V("i"), "EqualEqual", Num(2)),
                                        StmtBlock(<< ReturnOf(b) >>), NoneNode),
                                 say("more") >>)),
                        say("after") >>
         [] a = 6 -> << StmtWhile(lit(TRUE),
                           StmtBlock(
                              << StmtBlock(<< StmtIf(lit(TRUE),
                                    StmtBlock(<< ReturnOf(b) >>), NoneNode) >>),
                                 say("later") >>)),
                        say("after") >>
         [] a = 7 -> << StmtWhile(lit(TRUE), ReturnOf(b)), say("after") >>
         \* bodies that complete without executing a return
         [] a = 8 -> << say("body") >>
         [] a = 9 -> << StmtIf(lit(FALSE), ReturnOf(b), NoneNode) >>
         [] a = 10 -> <<>>
ReturnProgram(a, b) ==
    << StmtFunction("f", <<>>, ReturnBody(a, b)),
       StmtPrint(CallOf("f", <<>>)) >>

\* A return only leaves the innermost call:
\*   fun inner() { return e; }
\*   fun f() { inner(); print "cont"; return "outer"; }   print f();
InnerReturnProgram(b) ==
    << StmtFunction("inner", <<>>, << ReturnOf(b) >>),
       StmtFunction("f", <<>>,
          << StmtPrint(CallOf("inner", <<>>)),
             StmtPrint(Str("cont")),
             StmtReturn("return", Str("outer")) >>),
       StmtPrint(CallOf("f", <<>>)) >>

\* or-and.lox: var x = "unset"; fun side() { x = "set"; return "R"; }
\*             var r = <left> <or|and> <right>;  print r;  print x;
\* a = 1, 2: `or`, `and` with right operand (x = "R");
\* a = 3, 4: `or`, `and` with right operand side().
LogicalProgram(a, b) ==
    LET operator == IF a \in {1, 3} THEN "Or" ELSE "And"
        right == IF a \in {1, 2} THEN ExprGrouping(ExprAssign("x", Str("R")))
                 ELSE CallOf("side", <<>>)
    IN << StmtVar("x", Str("unset")),
          StmtFunction("side", <<>>,
             << StmtExpression(ExprAssign("x", Str("set"))),
                StmtReturn("return", Str("R")) >>),
          StmtVar("r", ExprLogical(ExprLiteral(Value(b)), operator, right)),
          StmtPrint(V("r")),
          StmtPrint(V("x")) >>

\* The binary operators, with the text of  4 <op> 2.
BinaryOperators ==
    <<"Greater", "GreaterEqual", "Less", "LessEqual", "Minus", "Slash",
      "Star", "Plus", "BangEqual", "EqualEqual">>
BinaryText ==
    <<"true", "true", "false", "false", "2", "2", "8", "6", "true", "false">>

\* fun f(x) { print x; return x; }   print f(4) <op> f(2);
\* b = 1: as written; b = 2: the left operand is an undefined variable;
\* b = 3: the right operand is.
OrderBinaryProgram(a, b) ==
    LET left == IF b = 2 THEN V("undefined") ELSE CallOf("f", <<Num(4)>>)
        right == IF b = 3 THEN V("undefined") ELSE CallOf("f", <<Num(2)>>)
    IN << StmtFunction("f", <<"x">>,
             << StmtPrint(V("x")), StmtReturn("return", V("x")) >>),
          StmtPrint(ExprBinary(left, BinaryOperators[a], right)) >>

\* fun f(x) { print x; return x; }
\* fun g(..a params..) { print "body"; }
\* fun mk() { print "callee"; return g; }
\* mk()(f(1), .., f(a));     b = 2: one argument more than g has parameters
MaxArguments == 3
RECURSIVE ArgumentsTo(_)
ArgumentsTo(n) ==
    IF n = 0 THEN <<>>
    ELSE Append(ArgumentsTo(n - 1), CallOf("f", <<Num(n)>>))
OrderCallProgram(a, b) ==
    << StmtFunction("f", <<"x">>,
          << StmtPrint(V("x")), StmtReturn("return", V("x")) >>),
       StmtFunction("g", SubSeq(<<"p", "q", "r", "s">>, 1, a),
          << StmtPrint(Str("body")) >>),
       StmtFunction("mk", <<>>,
          << StmtPrint(Str("callee")), StmtReturn("return", V("g")) >>),
       StmtExpression(
          ExprCall(CallOf("mk", <<>>), ")",
                   ArgumentsTo(IF b = 2 THEN a + 1 ELSE a))) >>

\* a = 1:  print clock;        a = 2:  clock();
ClockProgram(a) ==
    IF a = 1 THEN << StmtPrint(V("clock")) >>
    ELSE << StmtExpression(CallOf("clock", <<>>)) >>

\* the numbers 1 .. n as argument expressions
NumberArguments(n) == [i \in 1..n |-> Num(i)]

\* fun g(..a params..) { print "body"; }
\* g(1, .., b);
ArityProgram(a, b) ==
    << StmtFunction("g", SubSeq(<<"p", "q", "r", "s", "t">>, 1, a),
          << StmtPrint(Str("body")) >>),
       StmtExpression(CallOf("g", NumberArguments(b))) >>

\* values that are not callable
NotCallable ==
    << Num(1), Str("s"), ExprLiteral(Nil), ExprLiteral(Boolean(TRUE)) >>

\* 1(1, .., b);     "s"(1, .., b);     nil(1, .., b);     true(1, .., b);
NotCallableProgram(a, b) ==
    << StmtExpression(ExprCall(NotCallable[a], ")", NumberArguments(b))) >>

\* The right-hand sides of the assignments to the unbound name x:
\* a literal, and an assignment to the bound name y.
AssignedValue(v) ==
    IF v = 1 THEN Num(1) ELSE ExprAssign("y", Num(2))

\* The statement  x = <value>;  or, for b = 1, the statement  <value>;
\* that only evaluates the right-hand side.
AssignOrEvaluate(v, b) ==
    StmtExpression(IF b = 1 THEN AssignedValue(v)
                   ELSE ExprAssign("x", AssignedValue(v)))

\* a = 1, 2:  var y = 0; x = <value>;
\* a = 3, 4:  var y = 0; { var z = 1; x = <value>; }
\* a = 5, 6:  var y = 0; fun f(p) { x = <value>; } f(1);
\* the value being 1 for odd a and (y = 2) for even a
AssignProgram(a, b) ==
    LET v == IF a % 2 = 1 THEN 1 ELSE 2 IN
    CASE a \in {1, 2} ->
            << StmtVar("y", Num(0)), AssignOrEvaluate(v, b) >>
      [] a \in {3, 4} ->
            << StmtVar("y", Num(0)),
               StmtBlock(<< StmtVar("z", Num(1)), AssignOrEvaluate(v, b) >>) >>
      [] a \in {5, 6} ->
            << StmtVar("y", Num(0)),
               StmtFunction("f", <<"p">>, << AssignOrEvaluate(v, b) >>),
               StmtExpression(CallOf("f", <<Num(1)>>)) >>

\* a <= 7:  var v = <literal a>;  print v == v;  print v != v;
\* a = 8:   fun v() {}            print v == v;  print v != v;
ReflexiveProgram(a) ==
    << IF a = 8 THEN StmtFunction("v", <<>>, <<>>)
       ELSE StmtVar("v", ExprLiteral(Value(a))),
       StmtPrint(ExprBinary(V("v"), "EqualEqual", V("v"))),
       StmtPrint(ExprBinary(V("v"), "BangEqual", V("v"))) >>

\* a = 1:  print 1;  return;
\* a = 2:  fun f() { return; }  print 1;  return;
\* a = 3:  fun f() { if (true) { while (true) return 2; } }  print f();
TopReturnProgram(a) ==
    CASE a = 1 -> << StmtPrint(Num(1)), StmtReturn("return", NoneNode) >>
      [] a = 2 -> << StmtFunction("f", <<>>,
                                  << StmtReturn("return", NoneNode) >>),
                     StmtPrint(Num(1)),
                     StmtReturn("return", NoneNode) >>
      [] a = 3 -> << StmtFunction("f", <<>>,
                       << StmtIf(ExprLiteral(Boolean(TRUE)),
                                 StmtBlock(
                                    << StmtWhile(
                                          ExprLiteral(Boolean(TRUE)),
                                          StmtReturn("return", Num(2))) >>),
                                 NoneNode) >>),
                     StmtPrint(CallOf("f", <<>>)) >>

(***************************************************************************)
(* parser.rs: the `for` statement.                                         *)
(***************************************************************************)
\* Parser::for_statement, given what it has parsed for the three clauses
\* and the body; NoneNode is an absent clause.
for_statement(initializer, condition_, increment, body_) ==
    LET condition == IF condition_ # NoneNode THEN condition_
                     ELSE ExprLiteral(Boolean(TRUE))
        body1 == IF increment # NoneNode
                 THEN StmtBlock(<<body_, StmtExpression(increment)>>)
                 ELSE body_
        body2 == StmtWhile(condition, body1)
    IN IF initializer # NoneNode THEN StmtBlock(<<initializer, body2>>)
       ELSE body2

\* The desugaring the specification gives for `for`:
\* Block { init; While { cond || true; Block { body; Expression(step) } } }
Desugaring(initializer, condition_, increment, body_) ==
    LET condition == IF condition_ # NoneNode THEN condition_
                     ELSE ExprLiteral(Boolean(TRUE))
        step == IF increment # NoneNode THEN <<StmtExpression(increment)>>
                ELSE <<>>
        init == IF initializer # NoneNode THEN <<initializer>> ELSE <<>>
    IN StmtBlock(init \o <<StmtWhile(condition,
                                      StmtBlock(<<body_>> \o step))>>)

\* The clauses of script a: bit 1 the initializer, bit 2 the condition,
\* bit 4 the step.
HasInitializer(a) == a % 2 = 1
HasCondition(a) == (a \div 2) % 2 = 1
HasIncrement(a) == (a \div 4) % 2 = 1

\* [var i = 0;]  for ([var i = 0]; [i < 2]; [i = i + 1]) body
\* The body prints i, steps i itself when there is no step clause, and
\* begins with `if (i >= limit) return i;` when `returns`.  With d the loop
\* is the specification's desugaring instead of the parser's statement.
ForLoop(a, returns, limit, d) ==
    LET initializer == IF HasInitializer(a) THEN StmtVar("i", Num(0))
                       ELSE NoneNode
        condition == IF HasCondition(a)
                     THEN ExprBinary(V("i"), "Less", Num(2))
                     ELSE NoneNode
        advance == ExprAssign("i", ExprBinary(V("i"), "Plus", Num(1)))
        increment == IF HasIncrement(a) THEN advance ELSE NoneNode
        leave == IF returns
                 THEN << StmtIf(ExprBinary(V("i"), "GreaterEqual",
                                           Num(limit)),
                                StmtReturn("return", V("i")), NoneNode) >>
                 ELSE <<>>
        own == IF HasIncrement(a) THEN <<>> ELSE <<StmtExpression(advance)>>
        body == IF ~returns /\ HasIncrement(a) THEN StmtPrint(V("i"))
                ELSE StmtBlock(leave \o <<StmtPrint(V("i"))>> \o own)
        declared == IF HasInitializer(a) THEN <<>>
                    ELSE <<StmtVar("i", Num(0))>>
        loop == IF d THEN Desugaring(initializer, condition, increment, body)
                ELSE for_statement(initializer, condition, increment, body)
    IN declared \o <<loop>>

\* b = 0: the loop at top level, then `print i;`
\* b = 1: fun f() { loop  return "end"; }  print f();  print i;
\*        the body returns i at 2 when there is no condition
\* b = 2: as b = 1, and the body always returns i at 1
ForProgram(a, b, d) ==
    IF b = 0 THEN ForLoop(a, FALSE, 2, d) \o <<StmtPrint(V("i"))>>
    ELSE << StmtFunction("f", <<>>,
               ForLoop(a, b = 2 \/ ~HasCondition(a), 3 - b, d)
                  \o <<StmtReturn("return", Str("end"))>>),
            StmtPrint(CallOf("f", <<>>)),
            StmtPrint(V("i")) >>

Program(s) ==
    CASE s.name = "enclosing" -> ShadowProgram(s.a)
      [] s.name = "closure" -> CounterProgram(s.a)
      [] s.name = "scope" -> ScopeProgram
      [] s.name = "fib" -> FibProgram(s.a)
      [] s.name = "block" -> BlockProgram(s.a)
      [] s.name = "outer" -> OuterProgram(s.a)
      [] s.name = "return" -> ReturnProgram(s.a, s.b)
      [] s.name = "inner_return" -> InnerReturnProgram(s.b)
      [] s.name = "logical" -> LogicalProgram(s.a, s.b)
      [] s.name = "order_binary" -> OrderBinaryProgram(s.a, s.b)
      [] s.name = "order_call" -> OrderCallProgram(s.a, s.b)
      [] s.name = "for" -> ForProgram(s.a, s.b, FALSE)
      [] s.name = "clock" -> ClockProgram(s.a)
      [] s.name = "arity" -> ArityProgram(s.a, s.b)
      [] s.name = "not_callable" -> NotCallableProgram(s.a, s.b)
      [] s.name = "assign" -> AssignProgram(s.a, s.b)
      [] s.name = "reflexive" -> ReflexiveProgram(s.a)
      [] s.name = "top_return" -> TopReturnProgram(s.a)

Script(name, a, b) == [name |-> name, a |-> a, b |-> b]

Scripts ==
    { Script("enclosing", a, 0) : a \in 0..1 }
    \cup { Script("closure", a, 0) : a \in 0..2 }
    \cup { Script("scope", 0, 0) }
    \cup { Script("fib", n, 0) : n \in 0..MaxFib }
    \cup { Script("block", a, 0) : a \in 1..4 }
    \cup { Script("outer", a, 0) : a \in 1..2 }
    \cup { Script("return", a, b) : a \in ReturnShapes, b \in {0, 1, 6, 7} }
    \cup { Script("inner_return", 0, b) : b \in {0, 6} }
    \cup { Script("logical", a, b) : a \in 1..4, b \in 1..Len(ValueText) }
    \cup { Script("order_binary", a, b) :
             a \in 1..Len(BinaryOperators), b \in 1..3 }
    \cup { Script("order_call", a, b) : a \in 0..MaxArguments, b \in 1..2 }
    \cup { s \in { Script("for", a, b) : a \in 0..7, b \in 0..2 } :
               s.b # 0 \/ HasCondition(s.a) }
    \cup { Script("clock", a, 0) : a \in 1..2 }
    \cup { Script("arity", a, b) : a \in 0..MaxArguments,
                                   b \in 0..MaxArguments }
    \cup { Script("not_callable", a, b) : a \in 1..Len(NotCallable),
                                          b \in 0..1 }
    \cup { Script("assign", a, b) : a \in 1..6, b \in 0..1 }
    \cup { Script("reflexive", a, 0) : a \in 1..8 }
    \cup { Script("top_return", a, 0) : a \in 1..3 }

(***************************************************************************)
(* token.rs, lexer.rs.  A source is a sequence of characters (strings of   *)
(* length one); lexemes and String payloads are such sequences too.        *)
(***************************************************************************)
Lower ==
    {"a", "b", "c", "d", "e", "f", "g", "h", "i", "j", "k", "l", "m", "n",
     "o", "p", "q", "r", "s", "t", "u", "v", "w", "x", "y", "z"}
Upper ==
    {"A", "B", "C", "D", "E", "F", "G", "H", "I", "J", "K", "L", "M", "N",
     "O", "P", "Q", "R", "S", "T", "U", "V", "W", "X", "Y", "Z"}
\* char::is_ascii_digit
is_ascii_digit(c) == c \in {"0", "1", "2", "3", "4", "5", "6", "7", "8", "9"}
\* char::is_ascii_alphabetic
is_ascii_alphabetic(c) == c \in Lower \cup Upper

\* Token::new: the payload of a String or Number token is its `literal`
Token_new(type, literal, lexeme, line) ==
    [type |-> type, literal |-> literal, lexeme |-> lexeme, line |-> line]

\* Token::get_keyword: "" stands for None
get_keyword(id) ==
    CASE id = <<"a", "n", "d">> -> "And"
      [] id = <<"o", "r">> -> "Or"
      [] id = <<"f", "a", "l", "s", "e">> -> "False"
      [] id = <<"t", "r", "u", "e">> -> "True"
      [] id = <<"i", "f">> -> "If"
      [] id = <<"e", "l", "s", "e">> -> "Eles"
      [] id = <<"f", "o", "r">> -> "For"
      [] id = <<"w", "h", "i", "l", "e">> -> "While"
      [] id = <<"f", "u", "n">> -> "Fun"
      [] id = <<"r", "e", "t", "u", "r", "n">> -> "Return"
      [] id = <<"c", "l", "a", "s", "s">> -> "Class"
      [] id = <<"s", "u", "p", "e", "r">> -> "Super"
      [] id = <<"t", "h", "i", "s">> -> "This"
      [] id = <<"v", "a", "r">> -> "Var"
      [] id = <<"n", "i", "l">> -> "Nil"
      [] id = <<"p", "r", "i", "n", "t">> -> "Print"
      [] OTHER -> ""

\* str::parse::<f64> on the text of a number token: the value, written
\* without leading zeros of the integer part and without trailing zeros of
\* the fraction.
RECURSIVE strip_leading_zeros(_)
strip_leading_zeros(n) ==
    IF Len(n) > 1 /\ Head(n) = "0" THEN strip_leading_zeros(Tail(n)) ELSE n
RECURSIVE strip_trailing_zeros(_)
strip_trailing_zeros(n) ==
    IF n # <<>> /\ n[Len(n)] = "0"
    THEN strip_trailing_zeros(SubSeq(n, 1, Len(n) - 1))
    ELSE n
parse_f64(n) ==
    LET dots == { i \in 1..Len(n) : n[i] = "." }
        dot == IF dots = {} THEN Len(n) + 1 ELSE CHOOSE i \in dots : TRUE
        whole == strip_leading_zeros(SubSeq(n, 1, dot - 1))
        fraction == strip_trailing_zeros(SubSeq(n, dot + 1, Len(n)))
    IN IF fraction = <<>> THEN whole ELSE whole \o <<".">> \o fraction

\* Lexer::new
Lexer_new(source) == [source |-> source, tokens |-> <<>>, line |-> 1]

\* The outcome of a step of the scan: the lexer, and the LexError if any.
Scanned(self) == [self |-> self, error |-> "", char |-> "", line |-> 0]
LexError(self, kind, char, line) ==
    [self |-> self, error |-> kind, char |-> char, line |-> line]

\* Lexer::add_token
add_token(self, type, literal, lexeme) ==
    [self EXCEPT !.tokens = Append(@, Token_new(type, literal, lexeme,
                                                self.line))]

\* self.source.peek(): "" stands for None
peek_char(self) == IF self.source = <<>> THEN "" ELSE Head(self.source)
\* self.source.next(), for its effect on the iterator
next_char(self) ==
    IF self.source = <<>> THEN self ELSE [self EXCEPT !.source = Tail(@)]

\* the arms '(' .. '*' of scan
single_character(c) ==
    CASE c = "(" -> "LeftParen"
      [] c = ")" -> "RightParen"
      [] c = "{" -> "LeftBrace"
      [] c = "}" -> "RightBrace"
      [] c = "," -> "Comma"
      [] c = "." -> "Dot"
      [] c = "-" -> "Minus"
      [] c = "+" -> "Plus"
      [] c = ";" -> "Semicolon"
      [] c = "*" -> "Star"
      [] OTHER -> ""
scan_single(self, c) == add_token(self, single_character(c), <<>>, <<c>>)

\* the arms '!', '=', '<', '>' of scan
scan_operator(self, c) ==
    LET one == CASE c = "!" -> "Bang" [] c = "=" -> "Equal"
                 [] c = "<" -> "Less" [] c = ">" -> "Greater"
        two == CASE c = "!" -> "BangEqual" [] c = "=" -> "EqualEqual"
                 [] c = "<" -> "LessEqual" [] c = ">" -> "GreaterEqual"
    IN IF peek_char(self) = "="
       THEN add_token(next_char(self), two, <<>>, <<c, "=">>)
       ELSE add_token(self, one, <<>>, <<c>>)

\* the loop of the '/' arm: consume up to and including '\n', or to the end
RECURSIVE skip_comment(_)
skip_comment(self) ==
    IF self.source = <<>> THEN self
    ELSE IF Head(self.source) = "\n" THEN next_char(self)
    ELSE skip_comment(next_char(self))

\* the arm '/' of scan
scan_slash(self) ==
    IF peek_char(self) = "/" THEN skip_comment(self)
    ELSE add_token(self, "Slash", <<>>, <<"/">>)

\* the loop of the '"' arm, s being the text collected so far; it ends at
\* the closing quote or, unclosed, at the end of the source
RECURSIVE string_loop(_, _)
string_loop(self, s) ==
    IF self.source = <<>> THEN [self |-> self, closed |-> FALSE, s |-> s]
    ELSE LET c == Head(self.source)
             rest == next_char(self)
         IN IF c = "\"" THEN [self |-> rest, closed |-> TRUE, s |-> s]
            ELSE IF c = "\n"
            THEN string_loop([rest EXCEPT !.line = @ + 1], s)
            ELSE string_loop(rest, Append(s, c))

\* the arm '"' of scan
scan_string(self) ==
    LET r == string_loop(self, <<>>) IN
    IF ~r.closed
    THEN LexError(r.self, "UnterminatedString", "\"", r.self.line)
    ELSE Scanned(add_token(r.self, "String", r.s, r.s))

\* `while let Some(&c) = self.source.peek()` over digits, n being the text
RECURSIVE digits_loop(_, _)
digits_loop(self, n) ==
    IF is_ascii_digit(peek_char(self))
    THEN digits_loop(next_char(self), Append(n, peek_char(self)))
    ELSE [self |-> self, n |-> n]

\* the arm '0'..='9' of scan
scan_number(self, c) ==
    LET whole == digits_loop(self, <<c>>)
        after_dot == next_char(whole.self)
        all == IF peek_char(whole.self) = "."
               THEN IF is_ascii_digit(peek_char(after_dot))
                    THEN digits_loop(after_dot, Append(whole.n, "."))
                    ELSE [self |-> after_dot, n |-> whole.n]
               ELSE whole
    IN add_token(all.self, "Number", parse_f64(all.n), all.n)

\* the arm 'o' of scan
scan_o(self) ==
    IF peek_char(self) = "r"
    THEN add_token(next_char(self), "Or", <<>>, <<"o", "r">>)
    ELSE self

\* the loop of the identifier arm
RECURSIVE ident_loop(_, _)
ident_loop(self, ident) ==
    LET c == peek_char(self) IN
    IF is_ascii_alphabetic(c) \/ is_ascii_digit(c) \/ c = "_"
    THEN ident_loop(next_char(self), Append(ident, c))
    ELSE [self |-> self, ident |-> ident]

\* the arm 'a'..='z' | 'A'..='Z' | '_' of scan
scan_identifier(self, c) ==
    LET r == ident_loop(self, <<c>>)
        keyword == get_keyword(r.ident)
    IN IF keyword # "" THEN add_token(r.self, keyword, <<>>, r.ident)
       ELSE add_token(r.self, "Identifier", <<>>, r.ident)

\* The arm of `match c` that a character takes, first match first.
arm(c) ==
    CASE single_character(c) # "" -> "single"
      [] c \in {"!", "=", "<", ">"} -> "operator"
      [] c = "/" -> "slash"
      [] c = "\"" -> "string"
      [] is_ascii_digit(c) -> "number"
      [] c = "o" -> "o"
      [] is_ascii_alphabetic(c) \/ c = "_" -> "identifier"
      [] c = "\n" -> "newline"
      [] c \in {" ", "\r", "\t"} -> "whitespace"
      [] OTHER -> "unexpected"

\* One turn of `while let Some(c) = self.source.next()` in Lexer::scan
scan_character(self) ==
    LET c == Head(self.source)
        rest == next_char(self)
    IN CASE arm(c) = "single" -> Scanned(scan_single(rest, c))
         [] arm(c) = "operator" -> Scanned(scan_operator(rest, c))
         [] arm(c) = "slash" -> Scanned(scan_slash(rest))
         [] arm(c) = "string" -> scan_string(rest)
         [] arm(c) = "number" -> Scanned(scan_number(rest, c))
         [] arm(c) = "o" -> Scanned(scan_o(rest))
         [] arm(c) = "identifier" -> Scanned(scan_identifier(rest, c))
         [] arm(c) = "newline" -> Scanned([rest EXCEPT !.line = @ + 1])
         [] arm(c) = "whitespace" -> Scanned(rest)
         [] arm(c) = "unexpected" ->
               LexError(rest, "UnexpectedCharacter", c, rest.line)

\* the end of scan: self.add_token(TokenType::EOF, "")
scan_end(self) == add_token(self, "EOF", <<>>, <<>>)

\* Lexer::scan, run to its end
RECURSIVE scan(_)
scan(self) ==
    IF self.source = <<>> THEN Scanned(scan_end(self))
    ELSE LET r == scan_character(self) IN
         IF r.error # "" THEN r ELSE scan(r.self)

(***************************************************************************)
(* parser.rs: expressions, and the statements made of one expression.      *)
(* Where a method goes on after `?`, the rest of it is the operator named  *)
(* <method>_rest, given the Ok or Err it received.                         *)
(***************************************************************************)
\* Parser::new
Parser_new(tokens) == [current |-> 0, tokens |-> tokens]

\* Ok(value) and Err(ParseError) of a parsing method, with the parser after
Parsed(self, value) ==
    [self |-> self, error |-> "", value |-> value,
     token |-> Token_new("", <<>>, <<>>, 0), message |-> ""]
ParseError(self, kind, token, message) ==
    [self |-> self, error |-> kind, value |-> NoneNode, token |-> token,
     message |-> message]

\* Parser::peek
peek(self) == self.tokens[self.current + 1]
\* Parser::previous
previous(self) == self.tokens[self.current]
\* Parser::is_at_end
is_at_end(self) == self.tokens[self.current + 1].type = "EOF"
\* Parser::check
check(self, type) ==
    IF is_at_end(self) THEN FALSE
    ELSE self.tokens[self.current + 1].type = type
\* Parser::advance, for its effect; the token returned is previous(self')
advance(self) ==
    IF self.tokens[self.current + 1].type # "EOF"
    THEN [self EXCEPT !.current = @ + 1]
    ELSE self
\* matche_types!: whether one of the types is next, advancing past it if so
matche_types(self, types) ==
    IF \E type \in types : check(self, type)
    THEN [matched |-> TRUE, self |-> advance(self)]
    ELSE [matched |-> FALSE, self |-> self]
\* Parser::consume; the token consumed is the value
consume(self, type, message) ==
    IF check(self, type)
    THEN Parsed([self EXCEPT !.current = @ + 1], peek(self))
    ELSE ParseError(self, "UnexpectedToken", peek(self), message)

RECURSIVE expression(_), unary(_), factor(_)

\* Parser::primary, after a parenthesized expression
grouping_rest(close, expr) ==
    IF close.error # "" THEN close
    ELSE Parsed(close.self, ExprGrouping(expr.value))
primary_rest(expr) ==
    IF expr.error # "" THEN expr
    ELSE grouping_rest(consume(expr.self, "RightParen",
                               "Expect ')' after expression."), expr)

\* Parser::primary
primary(self) ==
    LET type == peek(self).type
        next == advance(self)
    IN CASE type = "False" -> Parsed(next, ExprLiteral(Boolean(FALSE)))
         [] type = "True" -> Parsed(next, ExprLiteral(Boolean(TRUE)))
         [] type = "Nil" -> Parsed(next, ExprLiteral(Nil))
         [] type = "String" ->
               Parsed(next, ExprLiteral(String(peek(self).literal)))
         [] type = "Number" ->
               Parsed(next, ExprLiteral(Number(peek(self).literal)))
         [] type = "LeftParen" -> primary_rest(expression(next))
         [] type = "Identifier" -> Parsed(next, ExprVariable(previous(next)))
         [] OTHER -> ParseError(next, "UnexpectedToken", previous(next),
                                "Expect expression.")

\* the loop of finish_call: one argument, then another after each comma
RECURSIVE arguments_loop(_, _)
arguments_rest(argument, arguments) ==
    IF argument.error # "" THEN argument
    ELSE LET comma == matche_types(argument.self, {"Comma"})
             all == Append(arguments, argument.value)
         IN IF comma.matched THEN arguments_loop(comma.self, all)
            ELSE Parsed(comma.self, all)
arguments_loop(self, arguments) ==
    arguments_rest(expression(self), arguments)

\* Parser::finish_call
paren_rest(parent, callee, arguments) ==
    IF parent.error # "" THEN parent
    ELSE Parsed(parent.self, ExprCall(callee, parent.value, arguments.value))
finish_call_rest(arguments, callee) ==
    IF arguments.error # "" THEN arguments
    ELSE paren_rest(consume(arguments.self, "RightParen",
                            "Expect ')' after arguments."),
                    callee, arguments)
finish_call(self, callee) ==
    finish_call_rest(IF ~check(self, "RightParen")
                     THEN arguments_loop(self, <<>>)
                     ELSE Parsed(self, <<>>),
                     callee)

\* the loop of Parser::call
RECURSIVE call_loop(_, _)
call_loop_rest(r) ==
    IF r.error # "" THEN r ELSE call_loop(r.self, r.value)
call_loop(self, expr) ==
    LET m == matche_types(self, {"LeftParen"}) IN
    IF ~m.matched THEN Parsed(self, expr)
    ELSE call_loop_rest(finish_call(m.self, expr))

\* Parser::call
Parser_call(self) == call_loop_rest(primary(self))

\* Parser::unary
unary_rest(right, operator) ==
    IF right.error # "" THEN right
    ELSE Parsed(right.self, ExprUnary(operator, right.value))
unary(self) ==
    LET m == matche_types(self, {"Bang", "Minus"}) IN
    IF m.matched THEN unary_rest(unary(m.self), previous(m.self))
    ELSE Parser_call(self)

\* the loop of Parser::factor: the right operand is parsed by factor
RECURSIVE factor_loop(_, _)
factor_loop_rest(right, expr, operator) ==
    IF right.error # "" THEN right
    ELSE factor_loop(right.self, ExprBinary(expr, operator, right.value))
factor_loop(self, expr) ==
    LET m == matche_types(self, {"Slash", "Star"}) IN
    IF ~m.matched THEN Parsed(self, expr)
    ELSE factor_loop_rest(factor(m.self), expr, previous(m.self))

\* Parser::factor
factor_rest(expr) ==
    IF expr.error # "" THEN expr ELSE factor_loop(expr.self, expr.value)
factor(self) == factor_rest(unary(self))

\* the loop of Parser::term
RECURSIVE term_loop(_, _)
term_loop_rest(right, expr, operator) ==
    IF right.error # "" THEN right
    ELSE term_loop(right.self, ExprBinary(expr, operator, right.value))
term_loop(self, expr) ==
    LET m == matche_types(self, {"Plus", "Minus"}) IN
    IF ~m.matched THEN Parsed(self, expr)
    ELSE term_loop_rest(factor(m.self), expr, previous(m.self))

\* Parser::term
term_rest(expr) ==
    IF expr.error # "" THEN expr ELSE term_loop(expr.self, expr.value)
term(self) == term_rest(factor(self))

\* the loop of Parser::comparison
RECURSIVE comparison_loop(_, _)
comparison_loop_rest(right, expr, operator) ==
    IF right.error # "" THEN right
    ELSE comparison_loop(right.self, ExprBinary(expr, operator, right.value))
comparison_loop(self, expr) ==
    LET m == matche_types(self, {"Greater", "GreaterEqual", "Less",
                                 "LessEqual"})
    IN IF ~m.matched THEN Parsed(self, expr)
       ELSE comparison_loop_rest(term(m.self), expr, previous(m.self))

\* Parser::comparison
comparison_rest(expr) ==
    IF expr.error # "" THEN expr ELSE comparison_loop(expr.self, expr.value)
comparison(self) == comparison_rest(term(self))

\* the loop of Parser::equality
RECURSIVE equality_loop(_, _)
equality_loop_rest(right, expr, operator) ==
    IF right.error # "" THEN right
    ELSE equality_loop(right.self, ExprBinary(expr, operator, right.value))
equality_loop(self, expr) ==
    LET m == matche_types(self, {"BangEqual", "EqualEqual"}) IN
    IF ~m.matched THEN Parsed(self, expr)
    ELSE equality_loop_rest(comparison(m.self), expr, previous(m.self))

\* Parser::equality
equality_rest(expr) ==
    IF expr.error # "" THEN expr ELSE equality_loop(expr.self, expr.value)
equality(self) == equality_rest(comparison(self))

\* the loop of Parser::and
RECURSIVE and_loop(_, _)
and_loop_rest(right, expr, operator) ==
    IF right.error # "" THEN right
    ELSE and_loop(right.self, ExprLogical(expr, operator, right.value))
and_loop(self, expr) ==
    LET m == matche_types(self, {"And"}) IN
    IF ~m.matched THEN Parsed(self, expr)
    ELSE and_loop_rest(equality(m.self), expr, previous(m.self))

\* Parser::and
and_rest(expr) ==
    IF expr.error # "" THEN expr ELSE and_loop(expr.self, expr.value)
and(self) == and_rest(equality(self))

\* the loop of Parser::or: the right operand is parsed by equality
RECURSIVE or_loop(_, _)
or_loop_rest(right, expr, operator) ==
    IF right.error # "" THEN right
    ELSE or_loop(right.self, ExprLogical(expr, operator, right.value))
or_loop(self, expr) ==
    LET m == matche_types(self, {"Or"}) IN
    IF ~m.matched THEN Parsed(self, expr)
    ELSE or_loop_rest(equality(m.self), expr, previous(m.self))

\* Parser::or
or_rest(expr) ==
    IF expr.error # "" THEN expr ELSE or_loop(expr.self, expr.value)
or(self) == or_rest(and(self))

\* Parser::assignment
RECURSIVE assignment(_)
assignment_value_rest(value, expr, equals_) ==
    IF value.error # "" THEN value
    ELSE IF expr.value.k = "Variable"
    THEN Parsed(value.self, ExprAssign(expr.value.name, value.value))
    ELSE ParseError(value.self, "InvalidAssignment", equals_,
                    "Invalid assignment target.")
assignment_rest(expr) ==
    IF expr.error # "" THEN expr
    ELSE LET m == matche_types(expr.self, {"Equal"}) IN
         IF ~m.matched THEN expr
         ELSE assignment_value_rest(assignment(m.self), expr,
                                    previous(m.self))
assignment(self) == assignment_rest(or(self))

\* Parser::expression
expression(self) == assignment(self)

\* Parser::expression_statement
semicolon_rest(end, stmt) ==
    IF end.error # "" THEN end ELSE Parsed(end.self, stmt)
expression_statement_rest(value) ==
    IF value.error # "" THEN value
    ELSE semicolon_rest(consume(value.self, "Semicolon",
                                "Expect ';' after value."),
                        StmtExpression(value.value))
expression_statement(self) == expression_statement_rest(expression(self))

\* Parser::print_statement
print_statement_rest(value) ==
    IF value.error # "" THEN value
    ELSE semicolon_rest(consume(value.self, "Semicolon",
                                "Expect ';' after value."),
                        StmtPrint(value.value))
print_statement(self) == print_statement_rest(expression(self))

\* Parser::statement, for the statements that begin with `print` or with an
\* expression
statement(self) ==
    LET m == matche_types(self, {"Print"}) IN
    IF m.matched THEN print_statement(m.self)
    ELSE expression_statement(self)

\* Parser::declaration, for the same statements
declaration(self) == statement(self)

\* the values of the variables of a stage that does not run
NoLexer ==
    [input |-> <<>>, self |-> Lexer_new(<<>>), result |-> "idle",
     char |-> "", line |-> 0]
NoParser ==
    [source |-> <<>>, self |-> Parser_new(<<>>), statements |-> <<>>,
     result |-> "idle", token |-> Token_new("", <<>>, <<>>, 0),
     message |-> ""]
NoResolver ==
    [program |-> <<>>, pc |-> 0,
     self |-> [scopes |-> <<>>, current_function |-> "None",
               locals |-> <<>>, log |-> <<>>, refs |-> 0],
     result |-> "idle", token |-> Token_new("", <<>>, <<>>, 0)]
NoChain ==
    [heap |-> <<>>, self |-> 0, op |-> "idle", distance |-> 0, name |-> "",
     value |-> Nil, result |-> "idle", steps |-> 0]
NoPrompt ==
    [stdin |-> <<>>, at |-> "idle", line |-> <<>>, eof |-> FALSE,
     written |-> 0, executed |-> 0]
\* the stages after the parser and the prompt loop do not run
NoRest ==
    /\ resolver = NoResolver
    /\ chain = NoChain
    /\ prompt = NoPrompt
NoInterpreter ==
    /\ script = Script("none", 0, 0)
    /\ statements = <<>>
    /\ pc = 0
    /\ status = "idle"
    /\ interp = Interpreter_new(0)

(***************************************************************************)
(* main.rs: Lox::run on one script, one statement of                       *)
(* Interpreter::interpret per step.                                        *)
(***************************************************************************)
\* the wall clock read by `clock`
Times == {0}

Init ==
    \E s \in Scripts, now \in Times :
        /\ script = s
        /\ statements = Program(s)
        /\ pc = 1
        /\ status = "running"
        /\ interp = Interpreter_new(now)
        /\ lexer = NoLexer
        /\ parser = NoParser
        /\ NoRest

\* self.execute(stmt)? returning Ok: the loop goes on
ExecuteOk ==
    /\ status = "running"
    /\ pc <= Len(statements)
    /\ LET r == execute(statements[pc], [interp EXCEPT !.steps = 0]) IN
       /\ r.sig = "Ok"
       /\ interp' = r.st
       /\ pc' = pc + 1
       /\ UNCHANGED <<script, statements, status, lexer, parser,
                 resolver, chain, prompt>>

\* self.execute(stmt)? returning Err: interpret returns it and run reports it
ExecuteErr ==
    /\ status = "running"
    /\ pc <= Len(statements)
    /\ LET r == execute(statements[pc], [interp EXCEPT !.steps = 0]) IN
       /\ r.sig # "Ok"
       /\ interp' = r.st
       /\ status' = r.sig
       /\ UNCHANGED <<script, statements, pc, lexer, parser,
                 resolver, chain, prompt>>

\* the loop is over: interpret returns Ok(())
Finish ==
    /\ status = "running"
    /\ pc > Len(statements)
    /\ status' = "Ok"
    /\ UNCHANGED <<script, statements, pc, interp, lexer, parser,
                 resolver, chain, prompt>>

Next == ExecuteOk \/ ExecuteErr \/ Finish

Spec == Init /\ [][Next]_vars

(***************************************************************************)
(* The front end on its own: Lexer::scan on a source, one turn of its loop *)
(* per step.                                                               *)
(***************************************************************************)
\* the characters the sources are written with, and their longest length
SourceChars == {"o", "r", "f", "1", ".", "\"", "\n", " ", "/", "=", "#"}
MaxSource == 4
Sources == UNION { [1..n -> SourceChars] : n \in 0..MaxSource }

LexInit ==
    \E source \in Sources :
        /\ lexer = [input |-> source, self |-> Lexer_new(source),
                    result |-> "scanning", char |-> "", line |-> 0]
        /\ parser = NoParser
        /\ NoInterpreter
        /\ NoRest

\* the character that scan takes next belongs to the arm `a`
Taking(a) ==
    /\ lexer.result = "scanning"
    /\ lexer.self.source # <<>>
    /\ arm(Head(lexer.self.source)) = a

\* one turn of the loop of scan
ScanTurn ==
    /\ LET r == scan_character(lexer.self) IN
       lexer' = [lexer EXCEPT
                   !.self = r.self,
                   !.result = IF r.error = "" THEN "scanning" ELSE r.error,
                   !.char = r.char,
                   !.line = r.line]
    /\ UNCHANGED <<script, statements, pc, status, interp, parser,
                 resolver, chain, prompt>>

ScanSingle == Taking("single") /\ ScanTurn
ScanOperator == Taking("operator") /\ ScanTurn
ScanSlash == Taking("slash") /\ ScanTurn
ScanString == Taking("string") /\ ScanTurn
ScanNumber == Taking("number") /\ ScanTurn
ScanO == Taking("o") /\ ScanTurn
ScanIdentifier == Taking("identifier") /\ ScanTurn
ScanNewline == Taking("newline") /\ ScanTurn
ScanWhitespace == Taking("whitespace") /\ ScanTurn
ScanUnexpected == Taking("unexpected") /\ ScanTurn

\* the source is used up: the EOF token, and Ok(&self.tokens)
ScanEnd ==
    /\ lexer.result = "scanning"
    /\ lexer.self.source = <<>>
    /\ lexer' = [lexer EXCEPT !.self = scan_end(@), !.result = "Ok"]
    /\ UNCHANGED <<script, statements, pc, status, interp, parser,
                 resolver, chain, prompt>>

LexNext ==
    \/ ScanSingle \/ ScanOperator \/ ScanSlash \/ ScanString \/ ScanNumber
    \/ ScanO \/ ScanIdentifier \/ ScanNewline \/ ScanWhitespace
    \/ ScanUnexpected \/ ScanEnd

LexSpec == LexInit /\ [][LexNext]_vars

(***************************************************************************)
(* Lox::run up to the parser: the source is scanned, and Parser::parse     *)
(* takes one declaration per step.  The sources are expression statements  *)
(* a <op> b <op> c ... ; over the binary operators.                        *)
(***************************************************************************)
\* the operators by their token type, with their text
OperatorText ==
    [Or |-> <<"o", "r">>, And |-> <<"a", "n", "d">>,
     EqualEqual |-> <<"=", "=">>, Less |-> <<"<">>,
     Plus |-> <<"+">>, Minus |-> <<"-">>,
     Star |-> <<"*">>, Slash |-> <<"/">>]
Operators == DOMAIN OperatorText
MaxOperators == 3
OperatorLists == UNION { [1..n -> Operators] : n \in 0..MaxOperators }
\* the operands, in the order they are written
Operands == <<"a", "b", "c", "d", "e">>

\* a <op1> b <op2> c ... ;
RECURSIVE ExpressionText(_, _)
ExpressionText(ops, i) ==
    IF i > Len(ops) THEN <<Operands[i], ";">>
    ELSE <<Operands[i], " ">> \o OperatorText[ops[i]] \o <<" ">>
            \o ExpressionText(ops, i + 1)

ParseInit ==
    \E ops \in OperatorLists :
        LET source == ExpressionText(ops, 1)
            tokens == scan(Lexer_new(source))
        IN /\ tokens.error = ""
           /\ parser = [NoParser EXCEPT
                          !.source = ops,
                          !.self = Parser_new(tokens.self.tokens),
                          !.result = "parsing"]
           /\ lexer = NoLexer
           /\ NoInterpreter
           /\ NoRest

\* statements.push(self.declaration()?) with Ok
ParseDeclaration ==
    /\ parser.result = "parsing"
    /\ ~is_at_end(parser.self)
    /\ LET r == declaration(parser.self) IN
       /\ r.error = ""
       /\ parser' = [parser EXCEPT !.self = r.self,
                                   !.statements = Append(@, r.value)]
    /\ UNCHANGED <<script, statements, pc, status, interp, lexer,
                 resolver, chain, prompt>>

\* self.declaration()? with Err: parse returns the ParseError
ParseFail ==
    /\ parser.result = "parsing"
    /\ ~is_at_end(parser.self)
    /\ LET r == declaration(parser.self) IN
       /\ r.error # ""
       /\ parser' = [parser EXCEPT !.self = r.self, !.result = r.error,
                                   !.token = r.token,
                                   !.message = r.message]
    /\ UNCHANGED <<script, statements, pc, status, interp, lexer,
                 resolver, chain, prompt>>

\* is_at_end: Ok(statements)
ParseEnd ==
    /\ parser.result = "parsing"
    /\ is_at_end(parser.self)
    /\ parser' = [parser EXCEPT !.result = "Ok"]
    /\ UNCHANGED <<script, statements, pc, status, interp, lexer,
                 resolver, chain, prompt>>

ParseNext == ParseDeclaration \/ ParseFail \/ ParseEnd

ParseSpec == ParseInit /\ [][ParseNext]_vars

(***************************************************************************)
(* Properties.                                                             *)
(***************************************************************************)
Finished == status # "running"

\* C1: after executing any block or function-call body, the current
\* environment is again the one that was current before it was entered, on
\* every exit path (normal completion, runtime error, Return).
BlockRestoresEnvironment ==
    \A i \in 1..Len(interp.log) :
        interp.log[i].op = "execute_block"
            => interp.log[i].after = interp.log[i].previous

\* C2: for the function fib of fib.lox, the call fib(n) evaluates to the
\* n-th Fibonacci number, for every n up to MaxFib: `print fib(n)` prints it.
RECURSIVE Fibonacci(_)
Fibonacci(n) == IF n < 2 THEN n ELSE Fibonacci(n - 2) + Fibonacci(n - 1)
FibPrintsFibonacci ==
    (script.name = "fib" /\ Finished)
        => /\ status = "Ok"
           /\ interp.out = << number_to_string(Fibonacci(script.a)) >>

\* C3: while the body of a user function executes, the current environment
\* is the environment created for the call, whose enclosing environment is
\* the function's closure, and the closure is the environment that was
\* current when the Function statement executed.
FunctionBodyRunsInClosureChild ==
    \A i \in 1..Len(interp.log), j \in 1..Len(interp.log) :
        ( /\ interp.log[i].op = "call"
          /\ interp.log[j].op = "execute_block"
          /\ interp.log[j].env = interp.log[i].env )
        => /\ \E d \in 1..i : /\ interp.log[d].op = "function"
                              /\ interp.log[d].name = interp.log[i].name
                              /\ interp.log[d].closure = interp.log[i].closure
           /\ \A k \in 1..Len(interp.log[j].at) :
                 /\ interp.log[j].at[k] = interp.log[i].env
                 /\ interp.heap[interp.log[j].at[k]].enclosing
                       = interp.log[i].closure

\* C4: an assignment to a captured variable made inside an inner function
\* is observed by every later read of the variable, in later calls of the
\* closure and in the outer function: the counter prints 1, 2, 3, and the
\* outer function reads 1 and then 2.
ClosureSharesVariable ==
    (script.name = "closure" /\ Finished)
        => /\ status = "Ok"
           /\ interp.out = IF script.a = 0 THEN <<"1", "2", "3">>
                           ELSE <<"1", "2">>

\* C5: a variable reference inside a function body reads the binding that
\* was lexically visible where the function was declared: both calls of
\* showA print global.
ScopeFixedAtDeclaration ==
    (script.name = "scope" /\ Finished)
        => /\ status = "Ok"
           /\ interp.out = <<"global", "global">>

\* C6: a var declared in a block binds the name in the block only; after
\* the block exits a read of the name yields the enclosing binding with the
\* value it had before the block: enclosing.lox prints inner, outer, global,
\* and the block left by `return a` gives inner to the call and leaves the
\* global `a` to the read that follows.
VarIsLocalToBlock ==
    (script.name = "enclosing" /\ Finished)
        => /\ status = "Ok"
           /\ interp.out = IF script.a = 0 THEN <<"inner", "outer", "global">>
                           ELSE <<"inner", "global">>

\* C7: `return e` at any nesting depth of blocks, ifs and while loops stops
\* the whole body (no later statement, no further iteration) and makes the
\* innermost enclosing call evaluate to the value of e; a body that
\* completes without a return makes the call evaluate to nil.
ReturnExpected(a, b) ==
    CASE a \in {1, 2, 3, 4, 6, 7} -> << ReturnText(b) >>
      [] a = 5 -> <<"1", "more", "2", ReturnText(b)>>
      [] a = 8 -> <<"body", "nil">>
      [] a \in {9, 10} -> <<"nil">>
ReturnUnwindsToCall ==
    /\ (script.name = "return" /\ Finished)
          => /\ status = "Ok"
             /\ interp.out = ReturnExpected(script.a, script.b)
    /\ (script.name = "inner_return" /\ Finished)
          => /\ status = "Ok"
             /\ interp.out = <<ReturnText(script.b), "cont", "outer">>
\* a return inside if inside a block inside a while loop has unwound
ReturnWitness ==
    /\ script = Script("return", 5, 7)
    /\ status = "Ok"
    /\ interp.out = <<"1", "more", "2", "7">>

\* C8: in `a or b` the right operand is evaluated iff a is falsy, in
\* `a and b` iff a is truthy; when it is not evaluated none of its side
\* effects occur and the result is the value of a itself.
LogicalExpected(a, b) ==
    LET evaluated == IF a \in {1, 3} THEN Falsy(b) ELSE ~Falsy(b) IN
    IF evaluated THEN <<"R", IF a \in {1, 2} THEN "R" ELSE "set">>
    ELSE <<ValueText[b], "unset">>
LogicalShortCircuits ==
    (script.name = "logical" /\ Finished)
        => /\ status = "Ok"
           /\ interp.out = LogicalExpected(script.a, script.b)
\* `0 or side()` has skipped the call, `nil or side()` has made it
LogicalWitness ==
    /\ script.name = "logical"
    /\ script.a = 3
    /\ status = "Ok"
    /\ \/ script.b = 4 /\ interp.out = <<"0", "unset">>
       \/ script.b = 1 /\ interp.out = <<"R", "set">>

\* C9: evaluation is left to right: every side effect of the left operand
\* of a binary expression precedes those of the right operand (and a
\* failing left operand leaves the right one unevaluated); in a call the
\* callee is evaluated first, then the arguments in source order.
RECURSIVE NumberTexts(_)
NumberTexts(n) ==
    IF n = 0 THEN <<>> ELSE Append(NumberTexts(n - 1), number_to_string(n))
LeftToRight ==
    /\ (script.name = "order_binary" /\ Finished)
          => CASE script.b = 1 ->
                     /\ status = "Ok"
                     /\ interp.out = <<"4", "2", BinaryText[script.a]>>
               [] script.b = 2 ->
                     status = "UndefinedError" /\ interp.out = <<>>
               [] script.b = 3 ->
                     status = "UndefinedError" /\ interp.out = <<"4">>
    /\ (script.name = "order_call" /\ Finished)
          => IF script.b = 1
             THEN /\ status = "Ok"
                  /\ interp.out = <<"callee">> \o NumberTexts(script.a)
                                     \o <<"body">>
             ELSE /\ status = "TypeError"
                  /\ interp.out = <<"callee">> \o NumberTexts(script.a + 1)
LeftToRightWitness ==
    \/ /\ script = Script("order_binary", 8, 1)
       /\ interp.out = <<"4", "2", "6">>
    \/ /\ script = Script("order_call", 3, 1)
       /\ interp.out = <<"callee", "1", "2", "3", "body">>

\* Interpreter::interpret, run to its end on a whole statement list
RECURSIVE interpret(_, _, _)
interpret(stmts, i, st) ==
    IF i > Len(stmts) THEN Ok(st, Nil)
    ELSE LET r == execute(stmts[i], [st EXCEPT !.steps = 0]) IN
         IF r.sig # "Ok" THEN r ELSE interpret(stmts, i + 1, r.st)

\* The bindings visible from the current environment, scope by scope from
\* the innermost, each value as `print` shows it; scopes that bind nothing
\* are left out.
RECURSIVE Bindings(_, _)
Bindings(heap, env) ==
    IF env = 0 THEN <<>>
    ELSE LET values == heap[env].values
             shown == [name \in DOMAIN values |->
                          object_to_string(values[name])]
             rest == Bindings(heap, heap[env].enclosing)
         IN IF DOMAIN values = {} THEN rest ELSE <<shown>> \o rest

\* C10, first part: the statement the parser builds for a `for` loop runs
\* with the same prints, the same outcome and the same visible bindings in
\* the final environment as the specification's desugaring of that loop.
ForEquivalentToDesugaring ==
    (script.name = "for" /\ Finished)
        => LET r == interpret(ForProgram(script.a, script.b, TRUE), 1,
                              Interpreter_new(interp.now))
           IN /\ status = r.sig
              /\ interp.out = r.st.out
              /\ Bindings(interp.heap, interp.environment)
                    = Bindings(r.st.heap, r.st.environment)

\* C10, second part: once the loop is over, a variable declared in its
\* initializer is not visible: the `print i;` that ends the script fails
\* with an undefined-variable error and leaves no binding of i in reach.
ForInitializerNotVisibleAfter ==
    (script.name = "for" /\ Finished /\ HasInitializer(script.a))
        => /\ status = "UndefinedError"
           /\ ~get(interp.heap, interp.environment, "i").ok

\* C10: for every combination of present or absent initializer, condition
\* and step, the statement the parser builds for `for (init; cond; step)
\* body` executes with the same prints, bindings and final environment as
\* the desugaring, and a variable declared in init is not visible after
\* the loop.
ForBehavesAsDesugaring ==
    ForEquivalentToDesugaring /\ ForInitializerNotVisibleAfter

(***************************************************************************)
(* Properties of the front end.                                            *)
(***************************************************************************)
\* The precedence ladder of the specification, lowest first: logical-or,
\* logical-and, equality, comparison, term, factor.
Level(type) ==
    CASE type = "Or" -> 1
      [] type = "And" -> 2
      [] type \in {"BangEqual", "EqualEqual"} -> 3
      [] type \in {"Greater", "GreaterEqual", "Less", "LessEqual"} -> 4
      [] type \in {"Plus", "Minus"} -> 5
      [] type \in {"Slash", "Star"} -> 6

\* The expression that the ladder gives to operands lo..hi of the tokens
\* x1 op1 x2 op2 ... : it splits at the last operator of the lowest level,
\* so operators of one level associate to the left.
RECURSIVE LadderTree(_, _, _)
LadderTree(tokens, lo, hi) ==
    IF lo = hi THEN ExprVariable(tokens[2 * lo - 1])
    ELSE LET lowest == CHOOSE l \in 1..6 :
                          /\ \E i \in lo..(hi - 1) :
                                Level(tokens[2 * i].type) = l
                          /\ \A i \in lo..(hi - 1) :
                                Level(tokens[2 * i].type) >= l
             k == CHOOSE i \in lo..(hi - 1) :
                     /\ Level(tokens[2 * i].type) = lowest
                     /\ \A j \in (i + 1)..(hi - 1) :
                           Level(tokens[2 * j].type) # lowest
             left == LadderTree(tokens, lo, k)
             right == LadderTree(tokens, k + 1, hi)
         IN IF lowest <= 2 THEN ExprLogical(left, tokens[2 * k], right)
            ELSE ExprBinary(left, tokens[2 * k], right)

ParseFinished == parser.result \notin {"idle", "parsing"}

\* C11: logical-and binds tighter than logical-or: every expression that
\* mixes `or` and `and` parses, and parses as the ladder says; `a or b and c`
\* gives Logical(a, or, Logical(b, and, c)).
OrAndFollowLadder ==
    ( /\ ParseFinished
      /\ \A i \in 1..Len(parser.source) : parser.source[i] \in {"Or", "And"} )
        => /\ parser.result = "Ok"
           /\ parser.statements =
                 << StmtExpression(LadderTree(parser.self.tokens, 1,
                                              Len(parser.source) + 1)) >>

(***************************************************************************)
(* Properties of Lexer::scan, stated on the scans of LexSpec.              *)
(***************************************************************************)
LexFinished == lexer.result \notin {"idle", "scanning"}

\* s is one identifier run: [A-Za-z_][A-Za-z0-9_]*
IsIdentifierRun(s) ==
    /\ s # <<>>
    /\ is_ascii_alphabetic(s[1]) \/ s[1] = "_"
    /\ \A i \in 1..Len(s) :
          is_ascii_alphabetic(s[i]) \/ is_ascii_digit(s[i]) \/ s[i] = "_"

\* C12: an identifier run, whatever its first letter, is exactly one token
\* whose lexeme is the whole run; the token is a keyword token exactly when
\* the run is a reserved word, an Identifier otherwise.
IdentifierRunIsOneToken ==
    (LexFinished /\ IsIdentifierRun(lexer.input))
        => /\ lexer.result = "Ok"
           /\ Len(lexer.self.tokens) = 2
           /\ lexer.self.tokens[1] =
                 Token_new(IF get_keyword(lexer.input) # ""
                           THEN get_keyword(lexer.input) ELSE "Identifier",
                           <<>>, lexer.input, 1)
           /\ lexer.self.tokens[2].type = "EOF"

\* the length of the run of digits that s starts with
RECURSIVE LeadingDigits(_)
LeadingDigits(s) ==
    IF s # <<>> /\ is_ascii_digit(Head(s)) THEN 1 + LeadingDigits(Tail(s))
    ELSE 0

\* s starts with digits, then a '.', then something that is not a digit
DigitsDotNonDigit(s) ==
    LET k == LeadingDigits(s) IN
    /\ k >= 1
    /\ Len(s) > k
    /\ s[k + 1] = "."
    /\ Len(s) > k + 1 => ~is_ascii_digit(s[k + 2])

\* C13: digits followed by '.' and a non-digit give a Number token for the
\* digits alone, and the dot stays in the input: the next token is Dot.
TrailingDotIsLeft ==
    (LexFinished /\ DigitsDotNonDigit(lexer.input))
        => /\ Len(lexer.self.tokens) >= 2
           /\ lexer.self.tokens[1].type = "Number"
           /\ lexer.self.tokens[1].lexeme =
                 SubSeq(lexer.input, 1, LeadingDigits(lexer.input))
           /\ lexer.self.tokens[2].type = "Dot"

\* the lexemes of the tokens, joined by single spaces
RECURSIVE JoinLexemes(_)
JoinLexemes(tokens) ==
    IF tokens = <<>> THEN <<>>
    ELSE IF Len(tokens) = 1 THEN tokens[1].lexeme
    ELSE tokens[1].lexeme \o <<" ">> \o JoinLexemes(Tail(tokens))

\* the tokens without their lines: kind, payload and lexeme
KindsPayloadsLexemes(tokens) ==
    [i \in DOMAIN tokens |->
        [type |-> tokens[i].type, literal |-> tokens[i].literal,
         lexeme |-> tokens[i].lexeme]]

\* C14: scanning round-trips through the lexemes: the lexemes of a scan,
\* joined by single spaces, scan again to tokens of the same kinds,
\* payloads and lexemes, string literal tokens included.
ScanRoundTrips ==
    lexer.result = "Ok"
        => LET again == scan(Lexer_new(JoinLexemes(lexer.self.tokens))) IN
           /\ again.error = ""
           /\ KindsPayloadsLexemes(again.self.tokens) =
                 KindsPayloadsLexemes(lexer.self.tokens)

\* C15: a string that is not closed gives UnterminatedString, and the line
\* of the error is the line of the opening quote, also when the string has
\* newlines inside.
UnterminatedStringAtOpeningQuote ==
    [][ ( /\ Taking("string")
          /\ \A i \in 2..Len(lexer.self.source) :
                lexer.self.source[i] # "\"" )
            => /\ lexer'.result = "UnterminatedString"
               /\ lexer'.line = lexer.self.line ]_vars

\* the characters of s before its first '"'
RECURSIVE UpToQuote(_)
UpToQuote(s) ==
    IF s = <<>> \/ Head(s) = "\"" THEN <<>>
    ELSE <<Head(s)>> \o UpToQuote(Tail(s))

\* C16: the payload of a String token is exactly the characters between
\* the quotes, newlines included.
StringPayloadIsBetweenQuotes ==
    [][ (Taking("string") /\ lexer'.result = "scanning")
            => LET tokens == lexer'.self.tokens IN
               /\ Len(tokens) = Len(lexer.self.tokens) + 1
               /\ tokens[Len(tokens)].type = "String"
               /\ tokens[Len(tokens)].literal =
                     UpToQuote(Tail(lexer.self.source)) ]_vars

\* the number of newlines in s
RECURSIVE Newlines(_)
Newlines(s) ==
    IF s = <<>> THEN 0
    ELSE (IF Head(s) = "\n" THEN 1 ELSE 0) + Newlines(Tail(s))

\* the part of the input that scan has consumed
Consumed == SubSeq(lexer.input, 1, Len(lexer.input) - Len(lexer.self.source))

\* C17: the line counter is 1 plus the number of newlines consumed so far,
\* whichever construct consumed them: whitespace, the newline that ends a
\* comment, or a newline inside a string.
LineCountsNewlines ==
    lexer.result # "idle" => lexer.self.line = 1 + Newlines(Consumed)

(***************************************************************************)
(* Properties of the interpreter's globals, calls and assignments.         *)
(***************************************************************************)
\* C18: in a freshly constructed interpreter the current environment is
\* the global environment and binds clock to a native callable of arity 0:
\* `clock` and `clock()` at top level never raise UndefinedError.
ClockIsBoundAtTopLevel ==
    script.name = "clock"
        => /\ pc = 1 =>
                 LET g == get(interp.heap, interp.environment, "clock") IN
                 /\ g.ok
                 /\ g.value = Callable(Native(0, "clock"))
           /\ status # "UndefinedError"

\* the statement at pc is the call of an "arity" or "not_callable" script
AtCall ==
    /\ status = "running"
    /\ \/ script.name = "arity" /\ pc = 2
       \/ script.name = "not_callable" /\ pc = 1

\* C19: a call with a number of arguments other than the arity raises
\* TypeError "Expected N arguments but got M." at the closing paren, without
\* creating a call environment or executing a statement of the body; a call
\* of a value that is not callable raises TypeError "Can only call functions
\* and classes."; a body runs only with every parameter bound to exactly
\* one argument.
CallChecksArity ==
    [][ AtCall =>
          LET r == execute(statements[pc], [interp EXCEPT !.steps = 0])
              params == statements[1].params
          IN
          CASE script.name = "not_callable" ->
                  /\ status' = "TypeError"
                  /\ r.token = ")"
                  /\ r.message = "Can only call functions and classes."
                  /\ interp'.heap = interp.heap
                  /\ interp'.log = interp.log
                  /\ interp'.out = interp.out
            [] script.name = "arity" /\ script.a # script.b ->
                  /\ status' = "TypeError"
                  /\ r.token = ")"
                  /\ r.message = <<"Expected ", script.a,
                                   " arguments but got ", script.b, ".">>
                  /\ interp'.heap = interp.heap
                  /\ interp'.log = interp.log
                  /\ interp'.out = interp.out
            [] script.name = "arity" /\ script.a = script.b ->
                  /\ status' = "running"
                  /\ interp'.out = <<"body">>
                  /\ Len(interp'.heap) = Len(interp.heap) + 1
                  /\ LET values == interp'.heap[Len(interp'.heap)].values IN
                     /\ DOMAIN values = { params[i] : i \in 1..script.a }
                     /\ \A i \in 1..script.a : values[params[i]] = Number(i)
      ]_vars
CallChecksArityWitness ==
    \/ /\ script = Script("arity", 2, 1)
       /\ status = "TypeError"
       /\ interp.out = <<>>
    \/ /\ script = Script("arity", 1, 2)
       /\ status = "TypeError"
       /\ interp.out = <<>>
    \/ /\ script = Script("not_callable", 2, 0)
       /\ status = "TypeError"
    \/ /\ script = Script("arity", 2, 2)
       /\ pc = 3
       /\ interp.out = <<"body">>

\* every environment of the heap, with each value as `print` shows it
EveryEnvironment(heap) ==
    [e \in DOMAIN heap |->
        [enclosing |-> heap[e].enclosing,
         values |-> [name \in DOMAIN heap[e].values |->
                        object_to_string(heap[e].values[name])]]]

\* C20: assigning to a name that no reachable environment binds raises
\* UndefinedError and creates no binding: every environment holds exactly
\* what it held once the right-hand side had been evaluated; assignment
\* never introduces a variable.
AssignNeverDefines ==
    (script.name = "assign" /\ script.b = 0 /\ Finished)
        => /\ status = "UndefinedError"
           /\ EveryEnvironment(interp.heap) =
                 EveryEnvironment(
                    interpret(Program(Script("assign", script.a, 1)), 1,
                              Interpreter_new(interp.now)).st.heap)
           /\ \A e \in 1..Len(interp.heap) :
                 "x" \notin DOMAIN interp.heap[e].values
AssignNeverDefinesWitness ==
    /\ script = Script("assign", 6, 0)
    /\ status = "UndefinedError"
    /\ Len(interp.heap) = 3
    /\ interp.heap[2].values["y"] = Number(2)
    /\ DOMAIN interp.heap[3].values = {"p"}

(***************************************************************************)
(* Associativity and equality.                                             *)
(***************************************************************************)
\* C29: binary operators of equal precedence associate to the left at every
\* level of the ladder: a / b / c is Binary(Binary(a, /, b), /, c), and so
\* are a * b / c and a - b - c.
EqualPrecedenceAssociatesLeft ==
    ( /\ ParseFinished
      /\ \E l \in 3..6 : \A i \in 1..Len(parser.source) :
            Level(parser.source[i]) = l )
        => /\ parser.result = "Ok"
           /\ parser.statements =
                 << StmtExpression(LadderTree(parser.self.tokens, 1,
                                              Len(parser.source) + 1)) >>

\* C30: equality is reflexive on every runtime value (the numbers of the
\* scripts are not NaN): v == v is true and v != v is false for nil, a
\* boolean, a number, a string and a callable.
EqualityIsReflexive ==
    (script.name = "reflexive" /\ Finished)
        => /\ status = "Ok"
           /\ interp.out = <<"true", "false">>

\* C21: a program with a `return` outside any function, also one that
\* follows a function declaration, ends with TopLevelReturn before any of
\* its statements executes; a `return` nested in an if, a block and a loop
\* of a function body is accepted and the program runs.
TopLevelReturnIsRejected ==
    script.name = "top_return"
        => IF script.a \in {1, 2}
           THEN /\ pc = 1
                /\ interp.out = <<>>
                /\ Finished => status = "TopLevelReturn"
           ELSE Finished => /\ status = "Ok"
                            /\ interp.out = <<"2">>

(***************************************************************************)
(* main.rs: Lox::run_prompt.  Standard input is a sequence of lines, each  *)
(* given as the statements Lox::run parses from it; at the end of input    *)
(* read_line returns Ok(0) and leaves the line empty.  One step per call   *)
(* of the loop body: the prompt, read_line, run.                           *)
(***************************************************************************)
\* the lines typed at the prompt:  print 1;   var a = 1;   print a;
Lines ==
    { << StmtPrint(Num(1)) >>,
      << StmtVar("a", Num(1)) >>,
      << StmtPrint(V("a")) >> }
\* the longest standard input, in lines
MaxLines == 2
\* the turns of the loop that are followed after the end of input
MaxTurns == 2

\* Lox::new, then run_prompt up to `loop`
PromptInit ==
    \E stdin \in UNION { [1..n -> Lines] : n \in 0..MaxLines } :
        /\ prompt = [stdin |-> stdin, at |-> "write", line |-> <<>>,
                     eof |-> FALSE, written |-> 0, executed |-> 0]
        /\ script = Script("none", 0, 0)
        /\ statements = <<>>
        /\ pc = 0
        /\ status = "idle"
        /\ interp = Interpreter_new(0)
        /\ lexer = NoLexer
        /\ parser = NoParser
        /\ resolver = NoResolver
        /\ chain = NoChain

\* writer.write(PROMPT.as_bytes())?; writer.flush()?;
WritePrompt ==
    /\ prompt.at = "write"
    /\ prompt.written < MaxLines + MaxTurns
    /\ prompt' = [prompt EXCEPT !.written = @ + 1, !.at = "read"]
    /\ UNCHANGED <<script, statements, pc, status, interp, lexer, parser,
                   resolver, chain>>

\* let mut line = String::new(); reader.read_line(&mut line)?;
ReadLine ==
    /\ prompt.at = "read"
    /\ prompt' = IF prompt.stdin # <<>>
                 THEN [prompt EXCEPT !.line = Head(prompt.stdin),
                                     !.stdin = Tail(@),
                                     !.at = "run"]
                 ELSE [prompt EXCEPT !.line = <<>>, !.eof = TRUE,
                                     !.at = "run"]
    /\ UNCHANGED <<script, statements, pc, status, interp, lexer, parser,
                   resolver, chain>>

\* self.run(&line); and back to the head of the loop
RunLine ==
    /\ prompt.at = "run"
    /\ LET r == interpret(prompt.line, 1, interp) IN
       /\ statements' = prompt.line
       /\ interp' = r.st
       /\ status' = r.sig
    /\ prompt' = [prompt EXCEPT !.executed = @ + 1, !.at = "write"]
    /\ UNCHANGED <<script, pc, lexer, parser, resolver, chain>>

PromptNext == WritePrompt \/ ReadLine \/ RunLine

PromptSpec == PromptInit /\ [][PromptNext]_vars

\* C25: the prompt loop ends at the end of standard input: once a read has
\* returned no more input, no further prompt is written and no further line
\* is executed.
PromptEndsAtEndOfInput ==
    [][ prompt.eof => /\ prompt'.written = prompt.written
                      /\ prompt'.executed = prompt.executed ]_vars

(***************************************************************************)
(* environment.rs: ancestor, get_at and assign_at, on a chain of           *)
(* environments.  A panic (Option::expect on None) is the result "panic".  *)
(***************************************************************************)
\* the `for i in 0..distance` loop of Environment::ancestor: every turn
\* takes the enclosing environment of self
RECURSIVE ancestor_loop(_, _, _, _, _)
ancestor_loop(heap, self, i, distance, environment) ==
    IF i >= distance THEN [ok |-> TRUE, environment |-> environment]
    ELSE IF heap[self].enclosing = 0
    THEN [ok |-> FALSE, environment |-> 0]
    ELSE ancestor_loop(heap, self, i + 1, distance, heap[self].enclosing)

\* Environment::ancestor; environment 0 is None
ancestor(heap, self, distance) == ancestor_loop(heap, self, 0, distance, 0)

\* Environment::get_at
get_at(heap, self, distance, name) ==
    LET a == ancestor(heap, self, distance)
        env == IF a.environment # 0 THEN a.environment ELSE self
    IN IF ~a.ok THEN [ok |-> FALSE, value |-> Nil]
       ELSE IF name \in DOMAIN heap[env].values
       THEN [ok |-> TRUE, value |-> heap[env].values[name]]
       ELSE [ok |-> FALSE, value |-> Nil]

\* Environment::assign_at
assign_at(heap, self, distance, name, value) ==
    LET a == ancestor(heap, self, distance)
        env == IF a.environment # 0 THEN a.environment ELSE self
    IN IF ~a.ok THEN [ok |-> FALSE, heap |-> heap]
       ELSE [ok |-> TRUE, heap |-> define(heap, env, name, value)]

\* the longest chain, in environments, and the calls made on one chain
MaxChain == 3
MaxCalls == 2
\* the names bound in the chains
ChainNames == {"a", "b"}

\* The chain of n environments in which environment k encloses k + 1 and
\* binds the names of bound[k], each to the number 10 * k (+ 1 for "b").
ChainOf(n, bound) ==
    [k \in 1..n |->
        [enclosing |-> k - 1,
         values |-> [name \in bound[k] |->
                        Number(10 * k + (IF name = "b" THEN 1 ELSE 0))]]]

ChainInit ==
    \E n \in 1..MaxChain :
      \E bound \in [1..n -> {{}, {"a"}, {"a", "b"}}] :
        /\ chain = [heap |-> ChainOf(n, bound), self |-> 0, op |-> "none",
                    distance |-> 0, name |-> "", value |-> Nil,
                    result |-> "Ok", steps |-> 0]
        /\ resolver = NoResolver
        /\ prompt = NoPrompt
        /\ lexer = NoLexer
        /\ parser = NoParser
        /\ NoInterpreter

\* a call can be made: the process has not panicked
CanCall == chain.result = "Ok" /\ chain.steps < MaxCalls

\* self.get_at(distance, name)
GetAt ==
    /\ CanCall
    /\ \E self \in 1..Len(chain.heap), distance \in 0..MaxChain,
          name \in ChainNames :
          LET r == get_at(chain.heap, self, distance, name) IN
          chain' = [chain EXCEPT
                      !.self = self, !.op = "get_at",
                      !.distance = distance, !.name = name,
                      !.value = r.value,
                      !.result = IF r.ok THEN "Ok" ELSE "panic",
                      !.steps = @ + 1]
    /\ UNCHANGED <<script, statements, pc, status, interp, lexer, parser,
                   resolver, prompt>>

\* self.assign_at(distance, name, value)
AssignAt ==
    /\ CanCall
    /\ \E self \in 1..Len(chain.heap), distance \in 0..MaxChain,
          name \in ChainNames :
          LET value == Number(99)
              r == assign_at(chain.heap, self, distance, name, value)
          IN
          chain' = [chain EXCEPT
                      !.heap = r.heap,
                      !.self = self, !.op = "assign_at",
                      !.distance = distance, !.name = name,
                      !.value = value,
                      !.result = IF r.ok THEN "Ok" ELSE "panic",
                      !.steps = @ + 1]
    /\ UNCHANGED <<script, statements, pc, status, interp, lexer, parser,
                   resolver, prompt>>

ChainNext == GetAt \/ AssignAt

ChainSpec == ChainInit /\ [][ChainNext]_vars

\* the environment d enclosing links above env; 0 when the chain is shorter
RECURSIVE Above(_, _, _)
Above(heap, env, d) ==
    IF d = 0 \/ env = 0 THEN env ELSE Above(heap, heap[env].enclosing, d - 1)

\* C26: get_at(d, name) returns the value that name has in the local map
\* of the environment exactly d enclosing links above the environment it is
\* called on, whenever the chain has d links and that map binds the name;
\* never the value of a binding of the name at another depth.
GetAtReadsAtDistance ==
    [][ LET target == Above(chain.heap, chain'.self, chain'.distance) IN
        ( /\ chain'.op = "get_at"
          /\ target # 0
          /\ chain'.name \in DOMAIN chain.heap[target].values )
            => /\ chain'.result = "Ok"
               /\ chain'.value = chain.heap[target].values[chain'.name]
      ]_vars

\* C27: assign_at(d, name, v) sets name to v in the local map of the
\* environment exactly d enclosing links above the environment it is called
\* on, and leaves every other local map of the chain unchanged.
AssignAtWritesAtDistance ==
    [][ LET target == Above(chain.heap, chain'.self, chain'.distance) IN
        ( /\ chain'.op = "assign_at"
          /\ target # 0 )
            => /\ chain'.result = "Ok"
               /\ chain'.heap =
                     define(chain.heap, target, chain'.name, chain'.value)
      ]_vars

(***************************************************************************)
(* resolver.rs.  The Resolver state `st` holds scopes (a stack of maps     *)
(* from lexeme to the `defined` flag, innermost last), current_function,   *)
(* and the interpreter's side table `locals`.  In the AST that the         *)
(* resolver walks, names and keywords are tokens.  The history `log`       *)
(* records every call of declare, resolve_local and Interpreter::resolve;  *)
(* `refs` numbers the references in the order resolve_local meets them.    *)
(***************************************************************************)
\* Resolver::new
Resolver_new ==
    [scopes |-> <<>>, current_function |-> "None", locals |-> <<>>,
     log |-> <<>>, refs |-> 0]

\* resolver::Result: Ok(()) and Err(ResolveError)
Resolved(st) ==
    [st |-> st, error |-> "", token |-> Token_new("", <<>>, <<>>, 0)]
ResolveError(st, kind, token) == [st |-> st, error |-> kind, token |-> token]

\* Resolver::begin_scope
begin_scope(st) == [st EXCEPT !.scopes = Append(@, <<>>)]

\* Resolver::end_scope
end_scope(st) ==
    [st EXCEPT !.scopes = IF @ = <<>> THEN @ ELSE SubSeq(@, 1, Len(@) - 1)]

\* A declare that does not look for an earlier declaration.
declare_again(st, name) ==
    LET st1 == IF st.scopes = <<>> THEN st
               ELSE [st EXCEPT !.scopes[Len(st.scopes)] =
                                  (name.lexeme :> FALSE) @@ @]
    IN Resolved([st1 EXCEPT
                   !.log = Append(@, [op |-> "declare", name |-> name,
                                      scopes |-> st.scopes,
                                      after |-> st1.scopes,
                                      error |-> ""])])

\* Resolver::declare
declare(st, name) ==
    IF st.scopes # <<>> /\ name.lexeme \in DOMAIN st.scopes[Len(st.scopes)]
    THEN ResolveError(
            [st EXCEPT !.log = Append(@, [op |-> "declare", name |-> name,
                                          scopes |-> st.scopes,
                                          after |-> st.scopes,
                                          error |-> "AlreadyDeclared"])],
            "AlreadyDeclared", name)
    ELSE declare_again(st, name)

\* Resolver::define
Resolver_define(st, name) ==
    IF st.scopes = <<>> THEN st
    ELSE [st EXCEPT !.scopes[Len(st.scopes)] = (name.lexeme :> TRUE) @@ @]

\* the key of a reference in the interpreter's side table: the token, which
\* is its lexeme and its line
locals_key(name) == <<name.lexeme, name.line>>

\* Interpreter::resolve(name, depth): record the distance of the reference
Interpreter_resolve(st, name, depth, node) ==
    [st EXCEPT
       !.locals = (locals_key(name) :> depth) @@ @,
       !.log = Append(@, [op |-> "resolve", node |-> node, name |-> name,
                          depth |-> depth])]

\* A resolve_local loop that stops at the first scope that has the name.
RECURSIVE resolve_local_loop_break(_, _, _, _)
resolve_local_loop_break(st, name, i, node) ==
    IF i >= Len(st.scopes) THEN st
    ELSE IF name.lexeme \in DOMAIN st.scopes[Len(st.scopes) - i]
    THEN Interpreter_resolve(st, name, i, node)
    ELSE resolve_local_loop_break(st, name, i + 1, node)

\* `for (i, scope) in self.scopes.iter().rev().enumerate()` of resolve_local
RECURSIVE resolve_local_loop(_, _, _, _)
resolve_local_loop(st, name, i, node) ==
    IF i >= Len(st.scopes) THEN st
    ELSE IF name.lexeme \in DOMAIN st.scopes[Len(st.scopes) - i]
    THEN resolve_local_loop(Interpreter_resolve(st, name, i, node), name,
                            i + 1, node)
    ELSE resolve_local_loop(st, name, i + 1, node)

\* Resolver::resolve_local
resolve_local(st, name) ==
    LET node == st.refs + 1
        st1 == [st EXCEPT
                  !.refs = node,
                  !.log = Append(@, [op |-> "resolve_local", node |-> node,
                                     name |-> name, scopes |-> st.scopes])]
    IN resolve_local_loop(st1, name, 0, node)

RECURSIVE resolve_expr(_, _), resolve_exprs(_, _, _), resolve_stmt(_, _),
          resolve_stmts_from(_, _, _), declare_params(_, _, _)

\* the history's entry of a visit_variable_expr call
Visited(st, name, error) ==
    [st EXCEPT !.log = Append(@, [op |-> "read", name |-> name,
                                  scopes |-> st.scopes, error |-> error])]

\* A visit_variable_expr that reads the name whatever its flag is.
Resolver_visit_variable_expr_unflagged(st, name) ==
    Resolved(resolve_local(Visited(st, name, ""), name))

\* Resolver::visit_variable_expr
Resolver_visit_variable_expr(st, name) ==
    IF /\ st.scopes # <<>>
       /\ name.lexeme \in DOMAIN st.scopes[Len(st.scopes)]
       /\ st.scopes[Len(st.scopes)][name.lexeme] = FALSE
    THEN ResolveError(Visited(st, name, "ReadInOwnInitializer"),
                      "ReadInOwnInitializer", name)
    ELSE Resolver_visit_variable_expr_unflagged(st, name)

\* Resolver::visit_binary_expr and Resolver::visit_logical_expr
Resolver_visit_binary_expr(st, left, right) ==
    LET l == resolve_expr(st, left)
    IN IF l.error # "" THEN l ELSE resolve_expr(l.st, right)

\* Resolver::visit_assign_expr
Resolver_visit_assign_expr(st, name, expr) ==
    LET v == resolve_expr(st, expr)
    IN IF v.error # "" THEN v ELSE Resolved(resolve_local(v.st, name))

\* `for argument in arguments` of Resolver::visit_call_expr
resolve_exprs(st, arguments, i) ==
    IF i > Len(arguments) THEN Resolved(st)
    ELSE LET a == resolve_expr(st, arguments[i])
         IN IF a.error # "" THEN a ELSE resolve_exprs(a.st, arguments, i + 1)

\* Resolver::visit_call_expr
Resolver_visit_call_expr(st, callee, arguments) ==
    LET c == resolve_expr(st, callee)
    IN IF c.error # "" THEN c ELSE resolve_exprs(c.st, arguments, 1)

\* Resolver::resolve_expr: Expr::accept
resolve_expr(st, expr) ==
    CASE expr.k = "Literal" -> Resolved(st)
      [] expr.k = "Grouping" -> resolve_expr(st, expr.expression)
      [] expr.k = "Unary" -> resolve_expr(st, expr.right)
      [] expr.k \in {"Binary", "Logical"} ->
            Resolver_visit_binary_expr(st, expr.left, expr.right)
      [] expr.k = "Variable" -> Resolver_visit_variable_expr(st, expr.name)
      [] expr.k = "Assign" ->
            Resolver_visit_assign_expr(st, expr.name, expr.value)
      [] expr.k = "Call" ->
            Resolver_visit_call_expr(st, expr.callee, expr.arguments)

\* Resolver::resolve_stmts, from the i-th statement on
resolve_stmts_from(st, stmts, i) ==
    IF i > Len(stmts) THEN Resolved(st)
    ELSE LET s == resolve_stmt(st, stmts[i])
         IN IF s.error # "" THEN s ELSE resolve_stmts_from(s.st, stmts, i + 1)

\* Resolver::resolve_stmts
resolve_stmts(st, stmts) == resolve_stmts_from(st, stmts, 1)

\* `for param in params` of Resolver::resolve_function
declare_params(st, params, i) ==
    IF i > Len(params) THEN Resolved(st)
    ELSE LET d == declare(st, params[i])
         IN IF d.error # "" THEN d
            ELSE declare_params(Resolver_define(d.st, params[i]), params,
                                i + 1)

\* A resolve_function that leaves current_function as the body had it.
resolve_function_unrestored(st, params, body, func_type) ==
    LET p == declare_params(
                 begin_scope([st EXCEPT !.current_function = func_type]),
                 params, 1)
        b == resolve_stmts(p.st, body)
    IN IF p.error # "" THEN p
       ELSE IF b.error # "" THEN b
       ELSE Resolved(end_scope(b.st))

\* Resolver::resolve_function
resolve_function(st, params, body, func_type) ==
    LET enclosing_function == st.current_function
        r == resolve_function_unrestored(st, params, body, func_type)
    IN IF r.error # "" THEN r
       ELSE Resolved([r.st EXCEPT !.current_function = enclosing_function])

\* Resolver::visit_block_stmt
Resolver_visit_block_stmt(st, stmts) ==
    LET b == resolve_stmts(begin_scope(st), stmts)
    IN IF b.error # "" THEN b ELSE Resolved(end_scope(b.st))

\* Resolver::visit_var_stmt
Resolver_visit_var_stmt(st, name, initializer) ==
    LET d == declare(st, name)
        i == IF initializer.k = "None" THEN Resolved(d.st)
             ELSE resolve_expr(d.st, initializer)
    IN IF d.error # "" THEN d
       ELSE IF i.error # "" THEN i
       ELSE Resolved(Resolver_define(i.st, name))

\* Resolver::visit_function_stmt
Resolver_visit_function_stmt(st, name, params, body) ==
    LET d == declare(st, name)
    IN IF d.error # "" THEN d
       ELSE resolve_function(Resolver_define(d.st, name), params, body,
                             "Function")

\* Resolver::visit_if_stmt
Resolver_visit_if_stmt(st, condition, then_branch, else_branch) ==
    LET c == resolve_expr(st, condition)
        t == resolve_stmt(c.st, then_branch)
    IN IF c.error # "" THEN c
       ELSE IF t.error # "" THEN t
       ELSE IF else_branch.k = "None" THEN t
       ELSE resolve_stmt(t.st, else_branch)

\* A visit_return_stmt that accepts a return anywhere.
Resolver_visit_return_stmt_anywhere(st, keyword, value) ==
    IF value.k = "None" THEN Resolved(st) ELSE resolve_expr(st, value)

\* Resolver::visit_return_stmt
Resolver_visit_return_stmt(st, keyword, value) ==
    IF st.current_function = "None"
    THEN ResolveError(st, "TopLevelReturn", keyword)
    ELSE Resolver_visit_return_stmt_anywhere(st, keyword, value)

\* Resolver::visit_while_stmt
Resolver_visit_while_stmt(st, condition, body) ==
    LET c == resolve_expr(st, condition)
    IN IF c.error # "" THEN c ELSE resolve_stmt(c.st, body)

\* Resolver::resolve_stmt: Stmt::accept
resolve_stmt(st, stmt) ==
    CASE stmt.k = "Block" -> Resolver_visit_block_stmt(st, stmt.statements)
      [] stmt.k \in {"Expression", "Print"} -> resolve_expr(st, stmt.expression)
      [] stmt.k = "Var" ->
            Resolver_visit_var_stmt(st, stmt.name, stmt.initializer)
      [] stmt.k = "If" ->
            Resolver_visit_if_stmt(st, stmt.condition, stmt.then_branch,
                                   stmt.else_branch)
      [] stmt.k = "While" ->
            Resolver_visit_while_stmt(st, stmt.condition, stmt.body)
      [] stmt.k = "Function" ->
            Resolver_visit_function_stmt(st, stmt.name, stmt.params, stmt.body)
      [] stmt.k = "Return" ->
            Resolver_visit_return_stmt(st, stmt.keyword, stmt.value)

(***************************************************************************)
(* The resolver's programs: statement lists as the parser builds them,     *)
(* with the tokens of the names; `l` is the line of a statement and `d`    *)
(* the line step between the statements of a block.                        *)
(***************************************************************************)
ResolveNames == {"a", "b"}
Id(x, l) == Token_new("Identifier", <<>>, x, l)
Read(x, l) == ExprVariable(Id(x, l))
ReturnOn(l) == StmtReturn(Token_new("Return", <<>>, "return", l), NoneNode)

\* var x;   var x = y;
Declarations(l) ==
    {StmtVar(Id(x, l), NoneNode) : x \in ResolveNames}
    \cup {StmtVar(Id(x, l), Read(y, l)) : x, y \in ResolveNames}

\* print x;   x = x + x;   return;
Leaves(l) ==
    Declarations(l)
    \cup {StmtPrint(Read(x, l)) : x \in ResolveNames}
    \cup {StmtExpression(
              ExprAssign(Id(x, l),
                         ExprBinary(Read(x, l), "Plus", Read(x, l)))) :
            x \in ResolveNames}
    \cup {ReturnOn(l)}

\* s   { s }   if (a) s   if (a) s else s   while (a) s
Nested(l) ==
    Leaves(l)
    \cup {StmtBlock(<<s>>) : s \in Leaves(l)}
    \cup {StmtIf(Read("a", l), s, NoneNode) : s \in Leaves(l)}
    \cup {StmtIf(Read("a", l), s, s) : s \in Leaves(l)}
    \cup {StmtWhile(Read("a", l), s) : s \in Leaves(l)}

\* { s1 s2 }   { var x; { s2 } s3 }   { var x; { s2 s3 } }
Blocks(l, d) ==
    {StmtBlock(<<s1, s2>>) : s1 \in Leaves(l), s2 \in Nested(l + d)}
    \cup {StmtBlock(<<s1, StmtBlock(<<s2>>), s3>>) :
            s1 \in Declarations(l), s2 \in Leaves(l + d),
            s3 \in Leaves(l + d + d)}
    \cup {StmtBlock(<<s1, StmtBlock(<<s2, s3>>)>>) :
            s1 \in Declarations(l), s2 \in Leaves(l + d),
            s3 \in Leaves(l + d + d)}

\* fun f(params) { s }   fun f(params) { s1 s2 }
Functions(l) ==
    {StmtFunction(Id(f, l), params, body) :
        f \in {"f", "a"},
        params \in {<<>>, <<Id("a", l)>>, <<Id("a", l), Id("b", l)>>,
                    <<Id("a", l), Id("a", l)>>},
        body \in {<<s>> : s \in Nested(l)}
                 \cup {<<s1, s2>> : s1, s2 \in Leaves(l)}}

\* { fun f(params) { s } s2 }
FunctionInBlock(l) ==
    {StmtBlock(<<StmtFunction(Id("f", l), <<Id("a", l)>>, <<s1>>), s2>>) :
        s1 \in Leaves(l), s2 \in Leaves(l)}

ResolveStatements(l) ==
    Nested(l) \cup Blocks(l, 0) \cup Blocks(l, 1) \cup Functions(l)
    \cup FunctionInBlock(l)

\* one statement, or one statement and then a `return;`, a `print a;` or a
\* `var a;`
ResolvePrograms ==
    {<<s>> : s \in ResolveStatements(1)}
    \cup {<<s, t>> : s \in ResolveStatements(1),
                     t \in {ReturnOn(9), StmtPrint(Read("a", 9)),
                            StmtVar(Id("a", 9), NoneNode)}}

(***************************************************************************)
(* ResolveSpec: the resolve stage, one statement of the program (one turn  *)
(* of the loop of resolve_stmts) a step.                                   *)
(***************************************************************************)
ResolveInit ==
    \E program \in ResolvePrograms :
        /\ resolver = [NoResolver EXCEPT !.program = program, !.pc = 1,
                                         !.self = Resolver_new,
                                         !.result = "resolving"]
        /\ lexer = NoLexer
        /\ parser = NoParser
        /\ NoInterpreter
        /\ chain = NoChain
        /\ prompt = NoPrompt

ResolveStatement ==
    /\ resolver.result = "resolving"
    /\ resolver.pc <= Len(resolver.program)
    /\ LET r == resolve_stmt(resolver.self, resolver.program[resolver.pc])
       IN /\ r.error = ""
          /\ resolver' = [resolver EXCEPT !.self = r.st, !.pc = @ + 1]
    /\ UNCHANGED <<script, statements, pc, status, interp, lexer, parser,
                   chain, prompt>>

ResolveFail ==
    /\ resolver.result = "resolving"
    /\ resolver.pc <= Len(resolver.program)
    /\ LET r == resolve_stmt(resolver.self, resolver.program[resolver.pc])
       IN /\ r.error # ""
          /\ resolver' = [resolver EXCEPT !.self = r.st, !.result = r.error,
                                          !.token = r.token]
    /\ UNCHANGED <<script, statements, pc, status, interp, lexer, parser,
                   chain, prompt>>

ResolveEnd ==
    /\ resolver.result = "resolving"
    /\ resolver.pc > Len(resolver.program)
    /\ resolver' = [resolver EXCEPT !.result = "Ok"]
    /\ UNCHANGED <<script, statements, pc, status, interp, lexer, parser,
                   chain, prompt>>

ResolveNext == ResolveStatement \/ ResolveFail \/ ResolveEnd

ResolveSpec == ResolveInit /\ [][ResolveNext]_vars

\* the distances, innermost scope 0, of the scopes that contain the name
Declaring(scopes, name) ==
    {i \in 0..(Len(scopes) - 1) :
        name.lexeme \in DOMAIN scopes[Len(scopes) - i]}

\* the distances that the resolve_local call of reference `node` handed to
\* Interpreter::resolve
Recorded(log, node) ==
    {log[k].depth : k \in {j \in DOMAIN log : /\ log[j].op = "resolve"
                                              /\ log[j].node = node}}

ResolveLocalCalls(log) == {k \in DOMAIN log : log[k].op = "resolve_local"}

\* C28: resolve_local records for a reference the distance of the innermost
\* scope that contains its name and no other distance, and records nothing
\* when no scope contains the name.
ResolveLocalRecordsInnermost ==
    \A k \in ResolveLocalCalls(resolver.self.log) :
        LET e == resolver.self.log[k]
            declaring == Declaring(e.scopes, e.name)
        IN Recorded(resolver.self.log, e.node) =
              IF declaring = {} THEN {}
              ELSE {CHOOSE i \in declaring : \A j \in declaring : i <= j}

ResolveCalls(log) == {k \in DOMAIN log : log[k].op = "resolve"}

\* the distance a reference resolved to: the one of its last
\* Interpreter::resolve call
LastResolve(log, node) ==
    CHOOSE k \in ResolveCalls(log) :
        /\ log[k].node = node
        /\ \A j \in ResolveCalls(log) : log[j].node = node => j <= k

\* C24: the side table is a function on the references: every reference
\* that resolved to a distance still has that distance in the table, so two
\* references with different distances never share an entry.
SideTableIsFunctionOnReferences ==
    \A k \in ResolveCalls(resolver.self.log) :
        LET log == resolver.self.log
            e == log[LastResolve(log, log[k].node)]
        IN /\ locals_key(e.name) \in DOMAIN resolver.self.locals
           /\ resolver.self.locals[locals_key(e.name)] = e.depth

Reads(log) == {k \in DOMAIN log : log[k].op = "read"}

\* the name is declared and not yet defined in the innermost scope
InOwnInitializer(scopes, name) ==
    /\ scopes # <<>>
    /\ name.lexeme \in DOMAIN scopes[Len(scopes)]
    /\ ~scopes[Len(scopes)][name.lexeme]

\* C22: a read of a variable fails with ReadInOwnInitializer, which ends the
\* resolve stage with that error at the name's token, exactly when the
\* innermost scope has the name declared and not yet defined; a read at
\* global level, or of a name that only outer scopes hold, is not an error.
ReadInOwnInitializerIsLocal ==
    \A k \in Reads(resolver.self.log) :
        LET e == resolver.self.log[k]
        IN IF InOwnInitializer(e.scopes, e.name)
           THEN /\ e.error = "ReadInOwnInitializer"
                /\ k = Len(resolver.self.log)
                /\ resolver.result = "ReadInOwnInitializer"
                /\ resolver.token = e.name
           ELSE /\ e.error = ""
                /\ (k = Len(resolver.self.log)
                       => resolver.result # "ReadInOwnInitializer")

\* a local `var a = a;` was rejected after a read of a name of the enclosing
\* scope was accepted
ReadInOwnInitializerWitness ==
    /\ resolver.result = "ReadInOwnInitializer"
    /\ Len(resolver.self.scopes) = 2
    /\ \E k \in Reads(resolver.self.log) :
          /\ resolver.self.log[k].error = ""
          /\ Declaring(resolver.self.log[k].scopes,
                       resolver.self.log[k].name) = {1}

Declares(log) == {k \in DOMAIN log : log[k].op = "declare"}

\* C23: declaring a name that the innermost scope already contains fails
\* with AlreadyDeclared, which ends the resolve stage at that token with the
\* scopes as they were; every other declaration, at global level or of a name
\* that only outer scopes contain, is accepted, and enters the name as not
\* yet defined in the innermost scope when there is one.
AlreadyDeclaredIsInnermost ==
    \A k \in Declares(resolver.self.log) :
        LET e == resolver.self.log[k]
        IN IF 0 \in Declaring(e.scopes, e.name)
           THEN /\ e.error = "AlreadyDeclared"
                /\ e.after = e.scopes
                /\ k = Len(resolver.self.log)
                /\ resolver.result = "AlreadyDeclared"
                /\ resolver.token = e.name
                /\ resolver.self.scopes = e.scopes
           ELSE /\ e.error = ""
                /\ IF e.scopes = <<>> THEN e.after = <<>>
                   ELSE /\ Len(e.after) = Len(e.scopes)
                        /\ DOMAIN e.after[Len(e.after)] =
                              DOMAIN e.scopes[Len(e.scopes)]
                                 \cup {e.name.lexeme}
                        /\ ~e.after[Len(e.after)][e.name.lexeme]

\* a declaration was rejected for a name that its scope had as defined, after
\* the same scope had accepted the name of an enclosing scope
AlreadyDeclaredWitness ==
    /\ resolver.result = "AlreadyDeclared"
    /\ resolver.self.scopes[Len(resolver.self.scopes)]
          [resolver.token.lexeme] = TRUE
    /\ \E k \in Declares(resolver.self.log) :
          /\ resolver.self.log[k].error = ""
          /\ Declaring(resolver.self.log[k].scopes,
                       resolver.self.log[k].name) = {1}

====
